---------------------------- MODULE Spec2Model ----------------------------
(***************************************************************************)
(* A model of the C-subset compiler: token stream -> Parser::Impl ->       *)
(* VariableResolutionVisitor -> TacVisitor -> makeAssembly, the command    *)
(* line driver around it, and the execution of the emitted AT&T x86-64     *)
(* text by the test fixture.                                               *)
(*                                                                         *)
(* 32-bit values are kept as signed integers INT_MIN..INT_MAX; every       *)
(* machine operation wraps to that range.                                  *)
(***************************************************************************)
EXTENDS Integers, Sequences, FiniteSets, TLC

(***************************************************************************)
(* 32-bit two's-complement arithmetic of the target machine.               *)
(***************************************************************************)
INT_MAX == (2^30 - 1) + 2^30
INT_MIN == -INT_MAX - 1

\* addl: sum modulo 2^32
Add32(a, b) ==
    IF b > 0 /\ a > INT_MAX - b THEN (a - INT_MAX - 1) + (b - INT_MAX - 1)
    ELSE IF b < 0 /\ a < INT_MIN - b THEN (a + INT_MAX + 1) + (b + INT_MAX + 1)
    ELSE a + b

\* negl: two's-complement negation (INT_MIN is its own negation)
Neg32(a) == IF a = INT_MIN THEN INT_MIN ELSE -a

\* subl
Sub32(a, b) == Add32(a, Neg32(b))

\* notl: one's complement
Not32(a) == IF a = INT_MIN THEN INT_MAX ELSE (-a) - 1

\* bit i (0 = least significant, 31 = sign) of a 32-bit value
BitAt(a, i) == IF i = 31 THEN (IF a < 0 THEN 1 ELSE 0) ELSE (a \div (2^i)) % 2

RECURSIVE Low31(_, _, _)
\* the value of bits f[lo..hi], summed by halves
Low31(f, lo, hi) ==
    IF lo = hi THEN f[lo] * (2^lo)
    ELSE Low31(f, lo, (lo + hi) \div 2) + Low31(f, (lo + hi) \div 2 + 1, hi)

\* the 32-bit value with bits f[0..31]
FromBits(f) == IF f[31] = 1 THEN (Low31(f, 0, 30) - INT_MAX) - 1 ELSE Low31(f, 0, 30)

And32(a, b) == FromBits([i \in 0..31 |-> BitAt(a, i) * BitAt(b, i)])
Or32(a, b)  == FromBits([i \in 0..31 |-> IF BitAt(a, i) + BitAt(b, i) > 0 THEN 1 ELSE 0])
Xor32(a, b) == FromBits([i \in 0..31 |-> (BitAt(a, i) + BitAt(b, i)) % 2])

\* the shift count the processor uses: the low five bits of the count operand
ShiftCount(c) == c % 32

\* shll
Shl32(a, c) == LET n == ShiftCount(c) IN
    FromBits([i \in 0..31 |-> IF i >= n THEN BitAt(a, i - n) ELSE 0])

\* shrl: logical right shift, zero fill
Shr32(a, c) == LET n == ShiftCount(c) IN
    FromBits([i \in 0..31 |-> IF i + n <= 31 THEN BitAt(a, i + n) ELSE 0])

\* sarl: arithmetic right shift, sign fill
Sar32(a, c) == LET n == ShiftCount(c) IN
    FromBits([i \in 0..31 |-> IF i + n <= 31 THEN BitAt(a, i + n) ELSE BitAt(a, 31)])

RECURSIVE MulAcc(_, _, _, _)
\* the sum of a << i over the set bits i of b in lo..hi, summed by halves
MulAcc(a, b, lo, hi) ==
    IF lo = hi THEN (IF BitAt(b, lo) = 1 THEN Shl32(a, lo) ELSE 0)
    ELSE Add32(MulAcc(a, b, lo, (lo + hi) \div 2), MulAcc(a, b, (lo + hi) \div 2 + 1, hi))

\* imull: low 32 bits of the product
Mul32(a, b) == MulAcc(a, b, 0, 31)

\* quotient truncated toward zero, for b > 0
TruncDivPos(a, b) ==
    LET f == a \div b
        r == a % b
    IN  IF a < 0 /\ r # 0 THEN f + 1 ELSE f

\* idiv is defined (no #DE fault) for these operands
DivDefined(a, b) == b # 0 /\ ~(a = INT_MIN /\ b = -1)

\* idiv quotient (eax)
Quot32(a, b) ==
    IF b > 0 THEN TruncDivPos(a, b)
    ELSE IF b = INT_MIN THEN (IF a = INT_MIN THEN 1 ELSE 0)
    ELSE -TruncDivPos(a, -b)

\* idiv remainder (edx)
Rem32(a, b) ==
    IF b = INT_MIN THEN (IF a = INT_MIN THEN 0 ELSE a)
    ELSE a - Quot32(a, b) * b

\* a 32-bit slot whose low byte is replaced by b (set<cc> on a memory operand)
SetLowByte(a, b) == (a - (a % 256)) + b


(***************************************************************************)
(* Tokens (lexer.hpp).  A token is a Symbol, a Keyword, a Number, an       *)
(* identifier or an UnknownToken.                                          *)
(***************************************************************************)
Sym(s)   == [k |-> "Symbol",     s |-> s,  n |-> 0]
Kw(s)    == [k |-> "Keyword",    s |-> s,  n |-> 0]
Num(n)   == [k |-> "Number",     s |-> "", n |-> n]
Ident(s) == [k |-> "Identifier", s |-> s,  n |-> 0]
UnknownToken == [k |-> "Unknown", s |-> "", n |-> 0]

\* enum class Symbol: the enumerator values
SymbolValue(s) ==
    CASE s = "-"  -> 0   [] s = "+"  -> 1
      [] s = "~"  -> 100 [] s = "!"  -> 101 [] s = "--" -> 102 [] s = "++" -> 103
      [] s = "*"  -> 200 [] s = "/"  -> 201 [] s = "%"  -> 202 [] s = "^"  -> 203
      [] s = "&"  -> 204 [] s = "|"  -> 205 [] s = "<<" -> 206 [] s = ">>" -> 207
      [] s = "&&" -> 208 [] s = "||" -> 209 [] s = "==" -> 210 [] s = "!=" -> 211
      [] s = "<=" -> 212 [] s = ">=" -> 213 [] s = "<"  -> 214 [] s = ">"  -> 215
      [] s = "="  -> 216 [] s = "?"  -> 217
      [] s = "{"  -> 300 [] s = "}"  -> 301 [] s = "("  -> 302 [] s = ")"  -> 303
      [] s = ";"  -> 304 [] s = ":"  -> 305
      [] OTHER    -> 399

UNARY_BEGIN  == 99
BINARY_BEGIN == 199
MISC_BEGIN   == 299

isUnaryOp(s) ==
    \/ SymbolValue(s) < UNARY_BEGIN
    \/ (SymbolValue(s) > UNARY_BEGIN /\ SymbolValue(s) < BINARY_BEGIN)

isBinaryOp(s) ==
    \/ SymbolValue(s) < UNARY_BEGIN
    \/ (SymbolValue(s) > BINARY_BEGIN /\ SymbolValue(s) < MISC_BEGIN)

\* static_cast<UnaryOperator>(Symbol): the enumerator with the same value
UnaryOperatorOf(v) ==
    CASE v = 0 -> "NEGATION" [] v = 1 -> "UNARY_ADD"
      [] v = 100 -> "BITWISE_NOT" [] v = 101 -> "LOGICAL_NOT"
      [] OTHER -> "INVALID"

\* static_cast<BinaryOperator>(Symbol): the enumerator with the same value
BinaryOperatorOf(v) ==
    CASE v = 0 -> "SUBTRACT" [] v = 1 -> "ADD"
      [] v = 200 -> "MULTIPLY" [] v = 201 -> "DIVIDE" [] v = 202 -> "MODULO"
      [] v = 203 -> "BITWISE_XOR" [] v = 204 -> "BITWISE_AND" [] v = 205 -> "BITWISE_OR"
      [] v = 206 -> "SHIFT_LEFT" [] v = 207 -> "SHIFT_RIGHT"
      [] v = 208 -> "LOGICAL_AND" [] v = 209 -> "LOGICAL_OR"
      [] v = 210 -> "EQUALS" [] v = 211 -> "NOT_EQUALS"
      [] v = 212 -> "LESS_THAN_OR_EQUAL" [] v = 213 -> "GREATER_THAN_OR_EQUAL"
      [] v = 214 -> "LESS_THAN" [] v = 215 -> "GREATER_THAN"
      [] OTHER -> "INVALID"

(***************************************************************************)
(* Lexer (lexer.cpp).  The source is a sequence of chars, each a string of *)
(* one character; HighByte stands for a byte above 0x7F, which is a        *)
(* negative char.  Passing a negative char to std::isalpha, std::isalnum   *)
(* or std::isdigit is undefined: the C library either answers 0 or stops   *)
(* the process on an assertion (ctype says which).                         *)
(***************************************************************************)
HighByte == "0xE9"

CtypeOnNegative == {"zero", "abort"}

Lowercase == {"a", "b", "c", "d", "e", "f", "g", "h", "i", "j", "k", "l", "m",
              "n", "o", "p", "q", "r", "s", "t", "u", "v", "w", "x", "y", "z"}
Uppercase == {"A", "B", "C", "D", "E", "F", "G", "H", "I", "J", "K", "L", "M",
              "N", "O", "P", "Q", "R", "S", "T", "U", "V", "W", "X", "Y", "Z"}
DigitChars == <<"0", "1", "2", "3", "4", "5", "6", "7", "8", "9">>

isalpha(c) == c \in Lowercase \cup Uppercase
isdigit(c) == \E d \in 1..10 : DigitChars[d] = c
isalnum(c) == isalpha(c) \/ isdigit(c)

\* source[i] - '0'
DigitValue(c) == (CHOOSE d \in 1..10 : DigitChars[d] = c) - 1

\* the chars of the switch that are a token of their own
SingleSymbols == {"{", "}", "(", ")", ";", "~", "*", "/", "%", "^"}

\* the chars of the switch that may begin a token of two chars, with the
\* second chars that do
DoubleSymbols(c) ==
    CASE c = "-" -> {"-"}
      [] c = "!" -> {"="}
      [] c = "+" -> {"+"}
      [] c = "|" -> {"|"}
      [] c = "&" -> {"&"}
      [] c = "<" -> {"<", "="}
      [] c = ">" -> {">", "="}
      [] c = "=" -> {"="}
      [] OTHER -> {}

Whitespace == {" ", "\n", "\r", "\t"}

\* a Lexer value: the position i in the source, the tokens so far, and
\* whether a ctype function has stopped the process
Lexer(i) == [i |-> i, tokens |-> <<>>, aborted |-> FALSE]

emplace_back(L, token, next) == [L EXCEPT !.tokens = Append(@, token), !.i = next]

CtypeAborts(source, i, ctype) == ctype = "abort" /\ source[i] = HighByte

\* the state of a scanning loop: the position, the identifier or the Number
\* so far, and whether a ctype function has stopped the process
Scan(i, value) == [i |-> i, value |-> value, aborted |-> FALSE]

RECURSIVE ScanIdentifier(_, _, _)
\* while (i < source.size() && (isalnum(source[i]) || source[i] == '_'))
\*     identifier += source[i++];
ScanIdentifier(source, S, ctype) ==
    CASE S.aborted -> S
      [] ~S.aborted /\ S.i > Len(source) -> S
      [] ~S.aborted /\ S.i <= Len(source) /\ CtypeAborts(source, S.i, ctype) ->
            [S EXCEPT !.aborted = TRUE]
      [] ~S.aborted /\ S.i <= Len(source) /\ ~CtypeAborts(source, S.i, ctype)
                    /\ (isalnum(source[S.i]) \/ source[S.i] = "_") ->
            ScanIdentifier(source, Scan(S.i + 1, S.value \o source[S.i]), ctype)
      [] OTHER -> S

RECURSIVE ScanNumber(_, _, _)
\* while (i < source.size() && isdigit(source[i]))
\*     intToken = intToken * 10 + (source[i++] - '0');
\* Number is unsigned int: the arithmetic wraps at 32 bits.  A Number of 2^31 or
\* more is held as the negative integer with the same 32 bits.
ScanNumber(source, S, ctype) ==
    CASE S.aborted -> S
      [] ~S.aborted /\ S.i > Len(source) -> S
      [] ~S.aborted /\ S.i <= Len(source) /\ CtypeAborts(source, S.i, ctype) ->
            [S EXCEPT !.aborted = TRUE]
      [] ~S.aborted /\ S.i <= Len(source) /\ ~CtypeAborts(source, S.i, ctype)
                    /\ isdigit(source[S.i]) ->
            ScanNumber(source,
                       Scan(S.i + 1, Add32(Mul32(S.value, 10), DigitValue(source[S.i]))),
                       ctype)
      [] OTHER -> S

\* the keywords the lexer knows
KeywordOrIdentifier(identifier) ==
    IF identifier \in {"return", "int"} THEN Kw(identifier) ELSE Ident(identifier)

\* one round of the for loop of Lexer::lex, on source[L.i]
LexChar(source, L, ctype) ==
    LET c == source[L.i]
        two == L.i + 1 <= Len(source) /\ source[L.i + 1] \in DoubleSymbols(c)
        word == ScanIdentifier(source, Scan(L.i, ""), ctype)
        number == ScanNumber(source, Scan(L.i, 0), ctype)
    IN  CASE c \in SingleSymbols -> emplace_back(L, Sym(c), L.i + 1)
          [] DoubleSymbols(c) # {} /\ two -> emplace_back(L, Sym(c \o source[L.i + 1]), L.i + 2)
          [] DoubleSymbols(c) # {} /\ ~two -> emplace_back(L, Sym(c), L.i + 1)
          [] c \in Whitespace -> [L EXCEPT !.i = @ + 1]
          [] CtypeAborts(source, L.i, ctype) -> [L EXCEPT !.aborted = TRUE]
          [] c # HighByte /\ (isalpha(c) \/ c = "_") ->
                [emplace_back(L, KeywordOrIdentifier(word.value), word.i)
                    EXCEPT !.aborted = word.aborted]
          [] c # HighByte /\ isdigit(c) ->
                [emplace_back(L, Num(number.value), number.i)
                    EXCEPT !.aborted = number.aborted]
          [] OTHER -> emplace_back(L, UnknownToken, L.i + 1)

RECURSIVE lex(_, _, _)
\* Lexer::lex
lex(source, L, ctype) ==
    CASE L.aborted -> L
      [] ~L.aborted /\ L.i > Len(source) -> L
      [] OTHER -> lex(source, LexChar(source, L, ctype), ctype)

(***************************************************************************)
(* AST nodes (ast_nodes.hpp).  nullptr children are NullNode.              *)
(***************************************************************************)
NullNode == [t |-> "Null"]
ConstNode(v) == [t |-> "Const", value |-> v]
VariableNode(id) == [t |-> "Variable", identifier |-> id]
UnaryNode(op, e) == [t |-> "Unary", op |-> op, expression |-> e]
BinaryNode(op, l, r) == [t |-> "Binary", op |-> op, left |-> l, right |-> r]
AssignmentNode(l, r) == [t |-> "Assignment", left |-> l, right |-> r]
PrefixNode(v, op) == [t |-> "Prefix", variable |-> v, op |-> op]
PostfixNode(v, op) == [t |-> "Postfix", variable |-> v, op |-> op]
\* an else after an if whose body is an if without braces, given to the outer if
ConditionNodeElseOnOuter(c, a, b, tern) ==
    IF ~tern /\ b = NullNode /\ a.t = "Condition" /\ ~a.isTernary /\ a.ifFalse # NullNode
    THEN [t |-> "Condition", condition |-> c, ifTrue |-> [a EXCEPT !.ifFalse = NullNode],
          ifFalse |-> a.ifFalse, isTernary |-> FALSE]
    ELSE [t |-> "Condition", condition |-> c, ifTrue |-> a, ifFalse |-> b, isTernary |-> tern]

ConditionNode(c, a, b, tern) ==
    [t |-> "Condition", condition |-> c, ifTrue |-> a, ifFalse |-> b, isTernary |-> tern]
DeclarationNode(id, e) == [t |-> "Declaration", identifier |-> id, expression |-> e]
ReturnNode(e) == [t |-> "Return", expression |-> e]
BlockNode(items) == [t |-> "Block", block_items |-> items]
WhileNode(c, body, label, isDo) ==
    [t |-> "While", condition |-> c, body |-> body, label |-> label, isDoWhile |-> isDo]
ForNode(init, c, inc, body, label) ==
    [t |-> "For", init |-> init, condition |-> c, increment |-> inc, body |-> body,
     label |-> label]
BreakNode(label) == [t |-> "Break", label |-> label]
ContinueNode(label, isFor) == [t |-> "Continue", label |-> label, isFor |-> isFor]
\* a FunctionDefinitionNode that is named main whatever the source names it
FunctionDefinitionNodeNamedMain(id, body) ==
    [t |-> "FunctionDefinition", identifier |-> "main", body |-> body]

FunctionDefinitionNode(id, body) ==
    [t |-> "FunctionDefinition", identifier |-> id, body |-> body]
ProgramNode(f) == [t |-> "Program", function_declaration |-> f]

\* dynamic_cast<LvalueNode*>: VariableNode and PrefixNode derive from LvalueNode
IsLvalue(node) == node.t \in {"Variable", "Prefix"}

RECURSIVE Clone(_)
\* LvalueNode::clone
Clone(node) ==
    IF node.t = "Variable" THEN VariableNode(node.identifier)
    ELSE PrefixNode(Clone(node.variable), node.op)

(***************************************************************************)
(* Parser::Impl (parser.cpp).  A parser value P carries the token deque,   *)
(* loopLabelCount, the node just parsed and the exception in flight        *)
(* (err = "none" when there is none).  Every operation passes a P that     *)
(* already carries an exception through unchanged, which is how a C++      *)
(* throw unwinds the recursive descent.  Position (lineNumber) only feeds  *)
(* the message text and is left out.                                       *)
(***************************************************************************)
Parser(tokens, garbage) ==
    [tokens |-> tokens, loopLabelCount |-> garbage, node |-> NullNode,
     err |-> "none", msg |-> ""]

Throw(P, kind, msg) == [P EXCEPT !.err = kind, !.msg = msg, !.node = NullNode]

Failed(P) == P.err # "none"

WithNode(P, node) == IF Failed(P) THEN P ELSE [P EXCEPT !.node = node]

\* the node a parse method returns; an exception in flight stays in flight
SetNode(P, node) == [P EXCEPT !.node = node]

\* Parser::Impl::peekToken throws on an empty deque
AtEnd(P) == P.tokens = <<>>

peekToken(P) == Head(P.tokens)

\* peekToken cannot return a token: an exception is in flight or the deque is empty
Stopped(P) == Failed(P) \/ AtEnd(P)

\* the next token is t
NextIs(P, t) == ~Stopped(P) /\ peekToken(P) = t

\* Parser::Impl::getTokenAndAdvance()
getTokenAndAdvance(P) ==
    CASE P.err # "none" -> P
      [] ~Failed(P) /\ AtEnd(P) -> Throw(P, "syntax_error", "Unexpected EOF")
      [] OTHER -> [P EXCEPT !.tokens = Tail(@)]

\* Parser::Impl::getTokenAndAdvance<T>(): the next token must hold a T
getTokenOfType(P, kind) ==
    CASE P.err # "none" -> P
      [] ~Failed(P) /\ AtEnd(P) -> Throw(P, "syntax_error", "Unexpected EOF")
      [] ~Stopped(P) /\ peekToken(P).k # kind -> Throw(P, "syntax_error", "Unexpected token")
      [] OTHER -> [P EXCEPT !.tokens = Tail(@)]

\* Parser::Impl::getTokenAndAdvance(T expected)
expectToken(P, expected) ==
    CASE P.err # "none" -> P
      [] ~Failed(P) /\ AtEnd(P) -> Throw(P, "syntax_error", "Unexpected EOF")
      [] ~Stopped(P) /\ peekToken(P) # expected -> Throw(P, "syntax_error", "Expected token")
      [] OTHER -> [P EXCEPT !.tokens = Tail(@)]

\* Parser::Impl::endLine
endLine(P) == expectToken(P, Sym(";"))

\* a table with one level for all binary operators
getPrecedenceOneLevel(op) ==
    CASE op \in {"*", "/", "%", "+", "-", ">>", "<<", "<", "<=", ">", ">=", "==", "!=",
                 "&", "^", "|", "&&", "||"} -> 10
      [] op = "?" -> 3
      [] op = "=" -> 1
      [] OTHER -> -1

\* static int getPrecedence(Symbol op)
getPrecedence(op) ==
    CASE op \in {"*", "/", "%"} -> 50
      [] op \in {"+", "-"} -> 45
      [] op \in {">>", "<<"} -> 40
      [] op \in {"<", "<=", ">", ">="} -> 35
      [] op \in {"==", "!="} -> 30
      [] op = "&" -> 25
      [] op = "^" -> 20
      [] op = "|" -> 15
      [] op = "&&" -> 10
      [] op = "||" -> 5
      [] op = "?" -> 3
      [] op = "=" -> 1
      [] OTHER -> -1

IncDecOperator(symbol) == IF symbol = "++" THEN "ADD" ELSE "SUBTRACT"

RECURSIVE parse(_, _, _)
RECURSIVE parseStatement(_)
RECURSIVE parseBlockItems(_, _)
RECURSIVE parseBinaryOpLoop(_, _)

\* a prefix increment or decrement built on whatever expression follows
parseIncrementDecrementOfAny(P, symbol) ==
    IF Failed(P) THEN P
    ELSE SetNode(P, PrefixNode(P.node, IncDecOperator(symbol)))

\* Parser::Impl::parseIncrementDecrement: P.node is the operand just parsed
parseIncrementDecrement(P, symbol) ==
    IF Failed(P) THEN P
    ELSE IF IsLvalue(P.node) THEN SetNode(P, PrefixNode(P.node, IncDecOperator(symbol)))
    ELSE Throw(P, "semantic_error", "Expected lvalue")

parsePrimary(P) ==
    CASE P.err # "none" -> P
      [] ~Failed(P) /\ AtEnd(P) -> Throw(P, "syntax_error", "Unexpected EOF")
      [] ~Stopped(P) /\ peekToken(P).k = "Number" ->
            SetNode(getTokenOfType(P, "Number"), ConstNode(peekToken(P).n))
      [] ~Stopped(P) /\ peekToken(P).k = "Symbol" ->
            LET e == parse("Expression", expectToken(P, Sym("(")), 0)
            IN  SetNode(expectToken(e, Sym(")")), e.node)
      [] ~Stopped(P) /\ peekToken(P).k = "Identifier" ->
            SetNode(getTokenOfType(P, "Identifier"), VariableNode(peekToken(P).s))
      [] OTHER -> Throw(P, "syntax_error", "Unexpected token")

\* the postfix half of parseUnaryOrPrimary: P.node is the primary just parsed
parsePostfix(P) ==
    CASE P.err # "none" -> P
      [] ~Failed(P) /\ AtEnd(P) -> Throw(P, "syntax_error", "Unexpected EOF")
      [] (NextIs(P, Sym("++")) \/ NextIs(P, Sym("--"))) /\ IsLvalue(P.node) ->
            SetNode(getTokenAndAdvance(P), PostfixNode(P.node, IncDecOperator(peekToken(P).s)))
      [] (NextIs(P, Sym("++")) \/ NextIs(P, Sym("--"))) /\ ~IsLvalue(P.node) ->
            Throw(P, "semantic_error", "Expected lvalue")
      [] OTHER -> P

parseUnaryOrPrimary(P) ==
    LET isSymbol == ~Stopped(P) /\ peekToken(P).k = "Symbol"
        isIncDec == isSymbol /\ peekToken(P).s \in {"++", "--"}
    IN
    CASE P.err # "none" -> P
      [] ~Failed(P) /\ AtEnd(P) -> Throw(P, "syntax_error", "Unexpected EOF")
      [] isIncDec ->
            parseIncrementDecrement(parsePrimary(getTokenAndAdvance(P)), peekToken(P).s)
      [] isSymbol /\ ~isIncDec /\ isUnaryOp(peekToken(P).s) ->
            LET e == parse("UnaryOrPrimary", getTokenOfType(P, "Symbol"), 0)
            IN  SetNode(e, UnaryNode(UnaryOperatorOf(SymbolValue(peekToken(P).s)), e.node))
      [] OTHER -> parsePostfix(parsePrimary(P))

\* Parse the middle term of a ternary, up to the colon
parseCondition(P) ==
    LET middle == parse("BinaryOp", P, 0)
    IN  SetNode(expectToken(middle, Sym(":")), middle.node)

\* the loop of parseBinaryOp: P.node is `left`
parseBinaryOpLoop(P, minPrecedence) ==
    LET isSymbol == ~Stopped(P) /\ peekToken(P).k = "Symbol"
        symbol == peekToken(P).s
        left == P.node
        Q == getTokenOfType(P, "Symbol")
        goesOn == isSymbol /\ isBinaryOp(symbol) /\ getPrecedence(symbol) >= minPrecedence
        assigns == goesOn /\ symbol = "="
        atEnd == goesOn /\ symbol # "=" /\ AtEnd(Q)
        compound == goesOn /\ symbol # "=" /\ ~AtEnd(Q) /\ peekToken(Q) = Sym("=")
    IN
    CASE P.err # "none" -> P
      [] ~Failed(P) /\ AtEnd(P) -> Throw(P, "syntax_error", "Unexpected EOF")
      \* std::get<Symbol> on another alternative: bad_variant_access, rethrown
      [] ~Stopped(P) /\ ~isSymbol -> Throw(P, "syntax_error", "Unexpected token")
      [] isSymbol /\ ~goesOn -> P
      [] assigns /\ ~IsLvalue(left) -> Throw(Q, "semantic_error", "Expected lvalue")
      [] assigns /\ IsLvalue(left) ->
            LET right == parse("BinaryOp", Q, getPrecedence(symbol))
            IN  parseBinaryOpLoop(SetNode(right, AssignmentNode(left, right.node)),
                                  minPrecedence)
      [] atEnd -> Throw(Q, "syntax_error", "Unexpected EOF")
      \* compound assignment: x ?= rhs becomes x = (x ? rhs)
      [] compound /\ ~IsLvalue(left) -> Throw(Q, "semantic_error", "Expected lvalue")
      [] compound /\ IsLvalue(left) ->
            LET right == parse("BinaryOp", getTokenAndAdvance(Q), getPrecedence("="))
            IN  parseBinaryOpLoop(
                    SetNode(right,
                        AssignmentNode(Clone(left),
                            BinaryNode(BinaryOperatorOf(SymbolValue(symbol)), left,
                                       right.node))),
                    minPrecedence)
      [] goesOn /\ ~assigns /\ ~atEnd /\ ~compound /\ symbol = "?" ->
            LET middle == parseCondition(Q)
                right == parse("BinaryOp", middle, getPrecedence(symbol))
            IN  parseBinaryOpLoop(
                    SetNode(right, ConditionNode(left, middle.node, right.node, TRUE)),
                    minPrecedence)
      [] OTHER ->
            LET right == parse("BinaryOp", Q, getPrecedence(symbol) + 1)
            IN  parseBinaryOpLoop(
                    SetNode(right,
                        BinaryNode(BinaryOperatorOf(SymbolValue(symbol)), left, right.node)),
                    minPrecedence)

parseBinaryOp(P, minPrecedence) == parseBinaryOpLoop(parseUnaryOrPrimary(P), minPrecedence)

parseExpression(P) == parseBinaryOp(P, 0)

parseDeclaration(P) ==
    LET identifier == peekToken(P).s
        Q == getTokenOfType(P, "Identifier")
    IN
    CASE P.err # "none" -> P
      [] ~Failed(P) /\ AtEnd(P) -> Throw(P, "syntax_error", "Unexpected EOF")
      [] ~Stopped(P) /\ Failed(Q) -> Q
      [] ~Stopped(P) /\ ~Failed(Q) /\ AtEnd(Q) -> Throw(Q, "syntax_error", "Unexpected EOF")
      [] ~Stopped(P) /\ NextIs(Q, Sym("=")) ->
            LET e == parse("Expression", expectToken(Q, Sym("=")), 0)
            IN  SetNode(e, DeclarationNode(identifier, e.node))
      [] OTHER -> SetNode(Q, DeclarationNode(identifier, NullNode))

\* a loop label that leaves loopLabelCount as it is
TakeLoopLabelWithoutCounting(P, node) == [P EXCEPT !.node = node]

\* std::to_string(loopLabelCount++)
TakeLoopLabel(P, node) == [P EXCEPT !.node = node, !.loopLabelCount = @ + 1]

\* the keywords parseStatement's switch has a case for
StatementKeywords == {"return", "if", "else", "while", "break", "continue", "do", "for"}

parseStatement(P) ==
    LET Q == getTokenAndAdvance(P)
    IN
    CASE P.err # "none" -> P
      [] ~Failed(P) /\ AtEnd(P) -> Throw(P, "syntax_error", "Unexpected EOF")
      [] NextIs(P, Kw("return")) ->
            LET e == parse("Expression", Q, 0)
            IN  SetNode(endLine(e), ReturnNode(e.node))
      [] NextIs(P, Kw("if")) ->
            LET e == parse("Expression", expectToken(Q, Sym("(")), 0)
                body == parseStatement(expectToken(e, Sym(")")))
            IN  CASE e.err # "none" -> e
                  [] ~Failed(e) /\ body.err # "none" -> body
                  [] ~Failed(e) /\ ~Failed(body) /\ AtEnd(body) ->
                        Throw(body, "syntax_error", "Unexpected EOF")
                  [] ~Failed(e) /\ NextIs(body, Kw("else")) ->
                        LET elseBody == parseStatement(getTokenAndAdvance(body))
                        IN  SetNode(elseBody,
                                ConditionNode(e.node, body.node, elseBody.node, FALSE))
                  [] OTHER -> SetNode(body, ConditionNode(e.node, body.node, NullNode, FALSE))
      [] NextIs(P, Kw("else")) -> Throw(Q, "syntax_error", "Unexpected else")
      [] NextIs(P, Kw("while")) ->
            LET e == parse("Expression", expectToken(Q, Sym("(")), 0)
                body == parseStatement(expectToken(e, Sym(")")))
            IN  TakeLoopLabel(body,
                    WhileNode(e.node, body.node, ToString(body.loopLabelCount), FALSE))
      [] NextIs(P, Kw("break")) -> SetNode(endLine(Q), BreakNode(""))
      [] NextIs(P, Kw("continue")) -> SetNode(endLine(Q), ContinueNode("", FALSE))
      [] NextIs(P, Kw("do")) ->
            LET body == parseStatement(Q)
                e == parse("Expression",
                           expectToken(expectToken(body, Kw("while")), Sym("(")), 0)
                close == expectToken(e, Sym(")"))
            IN  CASE body.err # "none" -> body
                  [] OTHER ->
                        endLine(TakeLoopLabel(close,
                            WhileNode(e.node, body.node, ToString(close.loopLabelCount),
                                      TRUE)))
      [] NextIs(P, Kw("for")) ->
            LET init == parse("BlockItem", expectToken(Q, Sym("(")), 0)
                condition == parseStatement(init)
                hasIncrement == ~Stopped(condition) /\ peekToken(condition) # Sym(")")
                increment == CASE Failed(condition) -> condition
                               [] ~Failed(condition) /\ AtEnd(condition) ->
                                     Throw(condition, "syntax_error", "Unexpected EOF")
                               [] hasIncrement -> parse("Expression", condition, 0)
                               [] OTHER -> SetNode(condition, NullNode)
                body == parseStatement(expectToken(increment, Sym(")")))
            IN  TakeLoopLabel(body,
                    ForNode(init.node, condition.node, increment.node, body.node,
                            ToString(body.loopLabelCount)))
      [] ~Stopped(P) /\ peekToken(P).k = "Keyword"
                     /\ peekToken(P).s \notin StatementKeywords ->
            Throw(Q, "syntax_error", "Unexpected keyword")
      [] NextIs(P, Sym("{")) -> parseBlockItems(Q, <<>>)
      [] NextIs(P, Sym(";")) -> SetNode(endLine(P), NullNode)
      [] OTHER ->
            LET e == parse("Expression", P, 0)
            IN  SetNode(endLine(e), e.node)

parseBlockItem(P) ==
    CASE P.err # "none" -> P
      [] ~Failed(P) /\ AtEnd(P) -> Throw(P, "syntax_error", "Unexpected EOF")
      [] NextIs(P, Kw("int")) ->
            LET d == parseDeclaration(getTokenAndAdvance(P))
            IN  SetNode(endLine(d), d.node)
      [] OTHER -> parseStatement(P)

\* block_items.emplace_back(blockItem) unless blockItem is null
emplaceBack(block_items, blockItem) ==
    IF blockItem = NullNode THEN block_items ELSE Append(block_items, blockItem)

\* the loop that fills block_items up to the closing brace, and the
\* getTokenAndAdvance(Symbol::CLOSED_BRACE) after it
parseBlockItems(P, block_items) ==
    CASE P.err # "none" -> P
      [] ~Failed(P) /\ AtEnd(P) -> Throw(P, "syntax_error", "Unexpected EOF")
      [] NextIs(P, Sym("}")) -> SetNode(getTokenAndAdvance(P), BlockNode(block_items))
      [] OTHER ->
            LET blockItem == parseBlockItem(P)
            IN  parseBlockItems(blockItem, emplaceBack(block_items, blockItem.node))

parseFunctionDeclaration(P) ==
    LET Close(functionName, body) ==
            CASE body.err # "none" -> body
              [] ~Failed(body) /\ ~AtEnd(body) -> Throw(body, "syntax_error", "Unexpected token")
              [] OTHER -> SetNode(body, FunctionDefinitionNode(functionName, body.node))
        Open(functionName, P2) ==
            Close(functionName,
                  parseBlockItems(
                      expectToken(expectToken(expectToken(P2, Sym("(")), Sym(")")), Sym("{")),
                      <<>>))
        Name(P1) ==
            Open(IF Stopped(P1) THEN "" ELSE peekToken(P1).s,
                 getTokenOfType(P1, "Identifier"))
    IN  Name(expectToken(P, Kw("int")))

\* a call of a parse method from a method defined above it
parse(rule, P, minPrecedence) ==
    CASE rule = "BlockItem" -> parseBlockItem(P)
      [] rule = "Expression" -> parseExpression(P)
      [] rule = "BinaryOp" -> parseBinaryOp(P, minPrecedence)
      [] rule = "UnaryOrPrimary" -> parseUnaryOrPrimary(P)
      [] rule = "FunctionDeclaration" -> parseFunctionDeclaration(P)

\* Parser::parse: the ProgramNode of the function; what an exception leaves
\* behind of the nodes under construction is dropped
parseProgram(P) ==
    LET Program(f) == IF Failed(f) THEN Throw(f, f.err, f.msg)
                      ELSE SetNode(f, ProgramNode(f.node))
    IN  Program(parse("FunctionDeclaration", P, 0))

(***************************************************************************)
(* VariableResolutionVisitor (variable_resolution.cpp).  A resolver value  *)
(* R carries variableMap (identifier -> stack of Variable, top last),      *)
(* layer, loopLabels (top last), the node as rewritten in place and the    *)
(* exception in flight.  A call through a null child pointer is the        *)
(* exception "segfault".                                                   *)
(***************************************************************************)
VariableResolutionVisitor(function) ==
    [function |-> function, layer |-> 0, variableMap |-> <<>>, loopLabels |-> <<>>,
     node |-> NullNode, err |-> "none", msg |-> ""]

Variable(function, name, layer) == [function |-> function, name |-> name, layer |-> layer]

Top(stack) == stack[Len(stack)]
Pop(stack) == SubSeq(stack, 1, Len(stack) - 1)

\* a resolved name without the layer
ResolvedNameWithoutLayer(v) == v.function \o "::" \o v.name

\* function + "::" + name + "::" + std::to_string(layer)
ResolvedName(v) == v.function \o "::" \o v.name \o "::" \o ToString(v.layer)

\* a scope exit that leaves every binding in place
PopLayerKeepsBindings(variableMap, layer) == variableMap

\* pops, for every identifier, the top binding when it was declared at this layer
PopLayer(variableMap, layer) ==
    [id \in DOMAIN variableMap |->
        IF variableMap[id] # <<>> /\ Top(variableMap[id]).layer = layer
        THEN Pop(variableMap[id]) ELSE variableMap[id]]

RECURSIVE Resolve(_, _)
RECURSIVE ResolveItems(_, _, _, _)

\* if (node->child) node->child->accept(*this)
ResolveOptional(R, child) ==
    CASE R.err # "none" -> R
      [] ~Failed(R) /\ child = NullNode -> SetNode(R, NullNode)
      [] OTHER -> Resolve(R, child)

\* a declaration that is never taken for a duplicate
visitDeclarationUnchecked(R, node) ==
    LET id == node.identifier
        v == Variable(R.function, id, R.layer)
        pushed == IF id \in DOMAIN R.variableMap
                  THEN [R.variableMap EXCEPT ![id] = Append(@, v)]
                  ELSE R.variableMap @@ (id :> <<v>>)
        e == ResolveOptional([R EXCEPT !.variableMap = pushed], node.expression)
    IN  [e EXCEPT !.node = [node EXCEPT !.identifier = ResolvedName(v),
                                        !.expression = e.node]]

visitDeclaration(R, node) ==
    LET id == node.identifier
        v == Variable(R.function, id, R.layer)
        duplicate == /\ id \in DOMAIN R.variableMap
                     /\ R.variableMap[id] # <<>>
                     /\ Top(R.variableMap[id]).layer = R.layer
        pushed == IF id \in DOMAIN R.variableMap
                  THEN [R.variableMap EXCEPT ![id] = Append(@, v)]
                  ELSE R.variableMap @@ (id :> <<v>>)
        e == ResolveOptional([R EXCEPT !.variableMap = pushed], node.expression)
    IN  CASE duplicate -> Throw(R, "semantic_error", "Duplicate variable declaration")
          [] OTHER -> [e EXCEPT !.node = [node EXCEPT !.identifier = ResolvedName(v),
                                                      !.expression = e.node]]

visitVariable(R, node) ==
    CASE node.identifier \notin DOMAIN R.variableMap ->
            Throw(R, "semantic_error", "Undeclared variable")
      [] node.identifier \in DOMAIN R.variableMap /\ R.variableMap[node.identifier] = <<>> ->
            Throw(R, "semantic_error", "Variable out of scope")
      [] OTHER -> SetNode(R, [node EXCEPT !.identifier = ResolvedName(Top(R.variableMap[@]))])

visitAssignment(R, node) ==
    LET l == Resolve(R, node.left)
        r == Resolve(l, node.right)
    IN  CASE l.err # "none" -> l
          [] OTHER -> [r EXCEPT !.node = [node EXCEPT !.left = l.node, !.right = r.node]]

visitReturn(R, node) ==
    LET e == ResolveOptional(R, node.expression)
    IN  [e EXCEPT !.node = [node EXCEPT !.expression = e.node]]

visitUnary(R, node) ==
    LET e == Resolve(R, node.expression)
    IN  [e EXCEPT !.node = [node EXCEPT !.expression = e.node]]

visitBinary(R, node) ==
    LET l == Resolve(R, node.left)
        r == Resolve(l, node.right)
    IN  CASE l.err # "none" -> l
          [] OTHER -> [r EXCEPT !.node = [node EXCEPT !.left = l.node, !.right = r.node]]

\* visitPostfix and visitPrefix
visitPostfix(R, node) ==
    LET v == Resolve(R, node.variable)
    IN  [v EXCEPT !.node = [node EXCEPT !.variable = v.node]]

visitCondition(R, node) ==
    LET c == Resolve(R, node.condition)
        a == Resolve(c, node.ifTrue)
        b == ResolveOptional(a, node.ifFalse)
    IN  CASE c.err # "none" -> c
          [] ~Failed(c) /\ a.err # "none" -> a
          [] OTHER -> [b EXCEPT !.node = [node EXCEPT !.condition = c.node,
                                                      !.ifTrue = a.node,
                                                      !.ifFalse = b.node]]

\* for (auto& statement : node->block_items) statement->accept(*this);
\* the result's node is the sequence of rewritten statements
ResolveItems(R, items, i, done) ==
    CASE R.err # "none" -> R
      [] ~Failed(R) /\ i > Len(items) -> SetNode(R, done)
      [] OTHER -> LET r == Resolve(R, items[i])
                  IN  ResolveItems(r, items, i + 1, Append(done, r.node))

visitBlock(R, node) ==
    LET after == ResolveItems([R EXCEPT !.layer = @ + 1], node.block_items, 1, <<>>)
    IN  [after EXCEPT
            !.node = [node EXCEPT !.block_items = after.node],
            !.variableMap = PopLayer(after.variableMap, after.layer),
            !.layer = @ - 1]

visitWhile(R, node) ==
    LET R1 == [R EXCEPT !.loopLabels = Append(@, [label |-> node.label, isFor |-> FALSE])]
        c == Resolve(R1, node.condition)
        b == ResolveOptional(c, node.body)
    IN  CASE c.err # "none" -> c
          [] OTHER -> [b EXCEPT !.node = [node EXCEPT !.condition = c.node, !.body = b.node],
                                !.loopLabels = Pop(@)]

\* a break bound to the outermost enclosing loop
visitBreakOutermost(R, node) ==
    CASE R.loopLabels = <<>> -> Throw(R, "semantic_error", "Break statement outside of loop")
      [] OTHER -> SetNode(R, [node EXCEPT !.label = R.loopLabels[1].label])

visitBreak(R, node) ==
    CASE R.loopLabels = <<>> -> Throw(R, "semantic_error", "Break statement outside of loop")
      [] OTHER -> SetNode(R, [node EXCEPT !.label = Top(R.loopLabels).label])

\* a continue that is accepted anywhere
visitContinueAnywhere(R, node) ==
    CASE R.loopLabels = <<>> -> SetNode(R, [node EXCEPT !.label = "0", !.isFor = FALSE])
      [] OTHER -> SetNode(R, [node EXCEPT !.label = Top(R.loopLabels).label,
                                          !.isFor = Top(R.loopLabels).isFor])

visitContinue(R, node) ==
    CASE R.loopLabels = <<>> ->
            Throw(R, "semantic_error", "Continue statement outside of loop")
      [] OTHER -> SetNode(R, [node EXCEPT !.label = Top(R.loopLabels).label,
                                          !.isFor = Top(R.loopLabels).isFor])

visitFor(R, node) ==
    LET hasInit == node.init # NullNode
        R1 == [R EXCEPT !.layer = IF hasInit THEN @ + 1 ELSE @,
                        !.loopLabels = Append(@, [label |-> node.label, isFor |-> TRUE])]
        i == ResolveOptional(R1, node.init)
        c == ResolveOptional(i, node.condition)
        n == ResolveOptional(c, node.increment)
        b == ResolveOptional(n, node.body)
    IN  CASE i.err # "none" -> i
          [] ~Failed(i) /\ c.err # "none" -> c
          [] ~Failed(i) /\ ~Failed(c) /\ n.err # "none" -> n
          [] OTHER ->
             [b EXCEPT
                !.node = [node EXCEPT !.init = i.node, !.condition = c.node,
                                      !.increment = n.node, !.body = b.node],
                !.loopLabels = Pop(@),
                !.variableMap = IF hasInit THEN PopLayer(b.variableMap, b.layer) ELSE @,
                !.layer = IF hasInit THEN @ - 1 ELSE @]

visitFunctionDefinition(R, node) ==
    LET b == ResolveOptional(R, node.body)
    IN  [b EXCEPT !.node = [node EXCEPT !.body = b.node]]

\* ASTNode::accept: the visit method of the node's dynamic type; a call
\* through a null pointer (the callers do not check node->child) is the
\* exception "segfault", and an exception in flight stays in flight
Resolve(R, node) ==
    LET type == IF Failed(R) THEN "thrown" ELSE node.t
    IN  CASE type = "thrown" -> R
          [] type = "Null" -> Throw(R, "segfault", "null pointer dereference")
          [] type = "FunctionDefinition" -> visitFunctionDefinition(R, node)
          [] type = "Declaration" -> visitDeclaration(R, node)
          [] type = "Assignment" -> visitAssignment(R, node)
          [] type = "Return" -> visitReturn(R, node)
          [] type = "Unary" -> visitUnary(R, node)
          [] type = "Binary" -> visitBinary(R, node)
          [] type = "Const" -> SetNode(R, node)
          [] type = "Variable" -> visitVariable(R, node)
          [] type \in {"Postfix", "Prefix"} -> visitPostfix(R, node)
          [] type = "Condition" -> visitCondition(R, node)
          [] type = "Block" -> visitBlock(R, node)
          [] type = "While" -> visitWhile(R, node)
          [] type = "Break" -> visitBreak(R, node)
          [] type = "Continue" -> visitContinue(R, node)
          [] type = "For" -> visitFor(R, node)
          [] type = "Program" -> Throw(R, "logic_error", "ProgramNode should not be visited")

(***************************************************************************)
(* Three-address code (tac.hpp) and TacVisitor (tac_visitor.cpp).  An      *)
(* operand is a Number, a PseudoRegister (its position) or a null pointer. *)
(* A lowering value T carries the FunctionBody, the visitor's result and   *)
(* the exception in flight.                                                *)
(***************************************************************************)
NumberOperand(n) == [k |-> "Number", v |-> n]
RegisterOperand(position) == [k |-> "PseudoRegister", v |-> position]
NullOperand == [k |-> "nullptr", v |-> 0]

FunctionInstruction(name) == [i |-> "Function", name |-> name]
AllocateStackInstruction == [i |-> "AllocateStack"]
UnaryOpInstruction(dest, op, arg) == [i |-> "UnaryOp", dest |-> dest, op |-> op, arg |-> arg]
BinaryOpInstruction(dest, op, left, right) ==
    [i |-> "BinaryOp", dest |-> dest, op |-> op, left |-> left, right |-> right]
JumpIfZero(operand, label) == [i |-> "JumpIfZero", op |-> operand, label |-> label]
JumpIfNotZero(operand, label) == [i |-> "JumpIfNotZero", op |-> operand, label |-> label]
Jump(label) == [i |-> "Jump", label |-> label]
Label(label) == [i |-> "Label", label |-> label]
StoreValueInstruction(dest, val) == [i |-> "StoreValue", dest |-> dest, val |-> val]
ReturnInstruction(val) == [i |-> "Return", val |-> val]

\* a FunctionBody whose variable counter starts at 0
FunctionBodyCountingFromZero(name) ==
    [name |-> name, variableCount |-> 0, labelCount |-> 0, instructions |-> <<>>,
     variableToPseudoregister |-> <<>>]

FunctionBody(name) ==
    [name |-> name, variableCount |-> 1, labelCount |-> 0, instructions |-> <<>>,
     variableToPseudoregister |-> <<>>]

TacVisitor(body) == [body |-> body, result |-> NullOperand, err |-> "none", msg |-> ""]

\* instructions.push_back(...)
emplaceInstruction(T, instruction) ==
    [T EXCEPT !.body.instructions = Append(@, instruction)]

\* body.variableCount++
NextVariable(T) == [T EXCEPT !.body.variableCount = @ + 1]

WithResult(T, operand) == [T EXCEPT !.result = operand]

\* std::format(".{}{}_suffix", body.name, n)
LabelName(T, n, suffix) == "." \o T.body.name \o n \o suffix

RECURSIVE Lower(_, _)
RECURSIVE LowerItems(_, _, _)

\* if (node->child) node->child->accept(*this)
LowerOptional(T, child) ==
    CASE T.err # "none" -> T
      [] ~Failed(T) /\ child = NullNode -> T
      [] OTHER -> Lower(T, child)

\* std::get<std::shared_ptr<PseudoRegister>>(*operand)
GetRegister(T, operand, exception) ==
    CASE T.err # "none" -> T
      [] ~Failed(T) /\ operand.k = "nullptr" ->
            Throw(T, "segfault", "null pointer dereference")
      [] ~Failed(T) /\ operand.k \notin {"nullptr", "PseudoRegister"} ->
            Throw(T, exception, "Invalid lvalue")
      [] OTHER -> T

TacVisitFunctionDefinition(T, node) ==
    LET T1 == emplaceInstruction(T, FunctionInstruction(T.body.name))
        T2 == emplaceInstruction(T1, AllocateStackInstruction)
    IN  LowerOptional(T2, node.body)

TacVisitDeclaration(T, node) ==
    LET pseudoRegister == T.body.variableCount
        T1 == [T EXCEPT !.body.variableToPseudoregister =
                  IF node.identifier \in DOMAIN @
                  THEN [@ EXCEPT ![node.identifier] = pseudoRegister]
                  ELSE @ @@ (node.identifier :> pseudoRegister)]
        hasInit == node.expression # NullNode
        e == Lower(T1, node.expression)
    IN  CASE ~hasInit -> NextVariable(T1)
          [] hasInit /\ e.err # "none" -> e
          [] OTHER -> NextVariable(emplaceInstruction(e,
                          StoreValueInstruction(pseudoRegister, e.result)))

TacVisitAssignment(T, node) ==
    LET r == Lower(T, node.right)
        src == r.result
        l == Lower(r, node.left)
        g == GetRegister(l, l.result, "semantic_error")
    IN  CASE r.err # "none" -> r
          [] ~Failed(r) /\ l.err # "none" -> l
          [] ~Failed(r) /\ ~Failed(l) /\ Failed(g) -> g
          [] OTHER -> emplaceInstruction(g, StoreValueInstruction(g.result.v, src))

TacVisitReturn(T, node) ==
    LET e == LowerOptional(T, node.expression)
        dest == IF node.expression = NullNode THEN NullOperand ELSE e.result
    IN  CASE e.err # "none" -> e
          [] OTHER -> WithResult(emplaceInstruction(e, ReturnInstruction(dest)), NullOperand)

TacVisitUnary(T, node) ==
    LET e == Lower(T, node.expression)
        dest == e.body.variableCount
    IN  CASE e.err # "none" -> e
          [] ~Failed(e) /\ node.op = "UNARY_ADD" -> e
          [] OTHER -> WithResult(NextVariable(emplaceInstruction(e,
                          UnaryOpInstruction(dest, node.op, e.result))),
                          RegisterOperand(dest))

\* the lowering of && and || without the jump between the operands: the right
\* operand is lowered before the left one is tested
TacVisitShortCircuitEager(T, node, jump, first, second, suffix) ==
    LET shortLabel == LabelName(T, ToString(T.body.labelCount + 1), suffix)
        endLabel == LabelName(T, ToString(T.body.labelCount + 2), "_end")
        T0 == [T EXCEPT !.body.labelCount = @ + 2]
        l == Lower(T0, node.left)
        r == Lower(l, node.right)
        T1 == emplaceInstruction(r, [i |-> jump, op |-> l.result, label |-> shortLabel])
        T2 == emplaceInstruction(T1, [i |-> jump, op |-> r.result, label |-> shortLabel])
        dest == T2.body.variableCount
        T3 == emplaceInstruction(T2, StoreValueInstruction(dest, NumberOperand(first)))
        T4 == emplaceInstruction(T3, Jump(endLabel))
        T5 == emplaceInstruction(T4, Label(shortLabel))
        T6 == emplaceInstruction(T5, StoreValueInstruction(dest, NumberOperand(second)))
        T7 == emplaceInstruction(T6, Label(endLabel))
    IN  CASE l.err # "none" -> l
          [] ~Failed(l) /\ r.err # "none" -> r
          [] OTHER -> WithResult(NextVariable(T7), RegisterOperand(dest))

\* the LOGICAL_AND branch (jump = JumpIfZero, first = 1, second = 0, "_false")
\* and the LOGICAL_OR branch (JumpIfNotZero, 0, 1, "_true") of visitBinary
TacVisitShortCircuit(T, node, jump, first, second, suffix) ==
    LET shortLabel == LabelName(T, ToString(T.body.labelCount + 1), suffix)
        endLabel == LabelName(T, ToString(T.body.labelCount + 2), "_end")
        T0 == [T EXCEPT !.body.labelCount = @ + 2]
        l == Lower(T0, node.left)
        T1 == emplaceInstruction(l, [i |-> jump, op |-> l.result, label |-> shortLabel])
        r == Lower(T1, node.right)
        T2 == emplaceInstruction(r, [i |-> jump, op |-> r.result, label |-> shortLabel])
        dest == T2.body.variableCount
        T3 == emplaceInstruction(T2, StoreValueInstruction(dest, NumberOperand(first)))
        T4 == emplaceInstruction(T3, Jump(endLabel))
        T5 == emplaceInstruction(T4, Label(shortLabel))
        T6 == emplaceInstruction(T5, StoreValueInstruction(dest, NumberOperand(second)))
        T7 == emplaceInstruction(T6, Label(endLabel))
    IN  CASE l.err # "none" -> l
          [] ~Failed(l) /\ r.err # "none" -> r
          [] OTHER -> WithResult(NextVariable(T7), RegisterOperand(dest))

TacVisitBinary(T, node) ==
    LET l == Lower(T, node.left)
        r == Lower(l, node.right)
        dest == r.body.variableCount
        plain == node.op \notin {"LOGICAL_AND", "LOGICAL_OR"}
    IN  CASE node.op = "LOGICAL_AND" ->
                TacVisitShortCircuit(T, node, "JumpIfZero", 1, 0, "_false")
          [] node.op = "LOGICAL_OR" ->
                TacVisitShortCircuit(T, node, "JumpIfNotZero", 0, 1, "_true")
          [] plain /\ l.err # "none" -> l
          [] plain /\ ~Failed(l) /\ r.err # "none" -> r
          [] OTHER -> WithResult(NextVariable(emplaceInstruction(r,
                          BinaryOpInstruction(dest, node.op, l.result, r.result))),
                          RegisterOperand(dest))

TacVisitConst(T, node) == WithResult(T, NumberOperand(node.value))

TacVisitVariable(T, node) ==
    CASE node.identifier \notin DOMAIN T.body.variableToPseudoregister ->
            Throw(T, "semantic_error", "Undeclared variable")
      [] OTHER ->
            WithResult(T, RegisterOperand(T.body.variableToPseudoregister[node.identifier]))

\* a postfix whose result is the new value of the variable
TacVisitPostfixNewValue(T, node) ==
    LET v == Lower(T, node.variable)
        variable == v.result
        temp1 == v.body.variableCount
        T1 == NextVariable(emplaceInstruction(v, StoreValueInstruction(temp1, variable)))
        temp2 == T1.body.variableCount
        T2 == NextVariable(emplaceInstruction(T1,
                  BinaryOpInstruction(temp2, node.op, variable, NumberOperand(1))))
        g == GetRegister(T2, variable, "bad_variant_access")
    IN  CASE v.err # "none" -> v
          [] ~Failed(v) /\ Failed(g) -> g
          [] OTHER -> WithResult(emplaceInstruction(g,
                          StoreValueInstruction(variable.v, RegisterOperand(temp2))),
                          RegisterOperand(temp2))

TacVisitPostfix(T, node) ==
    LET v == Lower(T, node.variable)
        variable == v.result
        temp1 == v.body.variableCount
        T1 == NextVariable(emplaceInstruction(v, StoreValueInstruction(temp1, variable)))
        temp2 == T1.body.variableCount
        T2 == NextVariable(emplaceInstruction(T1,
                  BinaryOpInstruction(temp2, node.op, variable, NumberOperand(1))))
        g == GetRegister(T2, variable, "bad_variant_access")
    IN  CASE v.err # "none" -> v
          [] ~Failed(v) /\ Failed(g) -> g
          [] OTHER -> WithResult(emplaceInstruction(g,
                          StoreValueInstruction(variable.v, RegisterOperand(temp2))),
                          RegisterOperand(temp1))

\* a prefix whose result is a temporary with the new value of the variable
TacVisitPrefixSnapshot(T, node) ==
    LET v == Lower(T, node.variable)
        variable == v.result
        g == GetRegister(v, variable, "bad_variant_access")
        T1 == emplaceInstruction(g, BinaryOpInstruction(variable.v, node.op, variable,
                                                        NumberOperand(1)))
        temp == T1.body.variableCount
    IN  CASE v.err # "none" -> v
          [] ~Failed(v) /\ Failed(g) -> g
          [] OTHER -> WithResult(NextVariable(emplaceInstruction(T1,
                          StoreValueInstruction(temp, variable))),
                          RegisterOperand(temp))

TacVisitPrefix(T, node) ==
    LET v == Lower(T, node.variable)
        variable == v.result
        g == GetRegister(v, variable, "bad_variant_access")
    IN  CASE v.err # "none" -> v
          [] ~Failed(v) /\ Failed(g) -> g
          [] OTHER -> NextVariable(emplaceInstruction(g,
                          BinaryOpInstruction(variable.v, node.op, variable,
                                              NumberOperand(1))))

TacVisitTernary(T, node) ==
    LET c == Lower(T, node.condition)
        elseLabel == LabelName(c, ToString(c.body.labelCount + 1), "_else")
        endLabel == LabelName(c, ToString(c.body.labelCount + 2), "_end")
        dest == c.body.variableCount
        T1 == emplaceInstruction(
                  [c EXCEPT !.body.labelCount = @ + 2, !.body.variableCount = @ + 1],
                  JumpIfZero(c.result, elseLabel))
        a == Lower(T1, node.ifTrue)
        T2 == emplaceInstruction(a, StoreValueInstruction(dest, a.result))
        T3 == emplaceInstruction(emplaceInstruction(T2, Jump(endLabel)), Label(elseLabel))
        b == Lower(T3, node.ifFalse)
        T4 == emplaceInstruction(b, StoreValueInstruction(dest, b.result))
    IN  CASE c.err # "none" -> c
          [] ~Failed(c) /\ a.err # "none" -> a
          [] ~Failed(c) /\ ~Failed(a) /\ b.err # "none" -> b
          [] OTHER -> WithResult(emplaceInstruction(T4, Label(endLabel)),
                                 RegisterOperand(dest))

TacVisitIf(T, node) ==
    LET c == Lower(T, node.condition)
        endLabel == LabelName(c, ToString(c.body.labelCount + 1), "_end")
        T1 == emplaceInstruction([c EXCEPT !.body.labelCount = @ + 1],
                                 JumpIfZero(c.result, endLabel))
        a == Lower(T1, node.ifTrue)
    IN  CASE c.err # "none" -> c
          [] ~Failed(c) /\ a.err # "none" -> a
          [] OTHER -> WithResult(emplaceInstruction(a, Label(endLabel)), NullOperand)

TacVisitIfElse(T, node) ==
    LET c == Lower(T, node.condition)
        elseLabel == LabelName(c, ToString(c.body.labelCount + 1), "_else")
        endLabel == LabelName(c, ToString(c.body.labelCount + 2), "_end")
        T1 == emplaceInstruction([c EXCEPT !.body.labelCount = @ + 2],
                                 JumpIfZero(c.result, elseLabel))
        a == Lower(T1, node.ifTrue)
        T2 == emplaceInstruction(emplaceInstruction(a, Jump(endLabel)), Label(elseLabel))
        b == Lower(T2, node.ifFalse)
    IN  CASE c.err # "none" -> c
          [] ~Failed(c) /\ a.err # "none" -> a
          [] ~Failed(c) /\ ~Failed(a) /\ b.err # "none" -> b
          [] OTHER -> WithResult(emplaceInstruction(b, Label(endLabel)), NullOperand)

TacVisitCondition(T, node) ==
    CASE node.isTernary -> TacVisitTernary(T, node)
      [] ~node.isTernary /\ node.ifFalse = NullNode -> TacVisitIf(T, node)
      [] OTHER -> TacVisitIfElse(T, node)

\* for (auto& item : node->block_items) item->accept(*this);
LowerItems(T, items, i) ==
    CASE T.err # "none" -> T
      [] ~Failed(T) /\ i > Len(items) -> T
      [] OTHER -> LowerItems(Lower(T, items[i]), items, i + 1)

TacVisitBlock(T, node) == LowerItems(T, node.block_items, 1)

TacVisitWhile(T, node) ==
    LET startLabel == LabelName(T, node.label, "_start.loop")
        endLabel == LabelName(T, node.label, "_end.loop")
        T1 == emplaceInstruction(T, Label(startLabel))
        c == Lower(T1, node.condition)
        T2 == emplaceInstruction(c, JumpIfZero(c.result, endLabel))
        b == LowerOptional(T2, node.body)
    IN  CASE c.err # "none" -> c
          [] ~Failed(c) /\ b.err # "none" -> b
          [] OTHER -> WithResult(emplaceInstruction(emplaceInstruction(b, Jump(startLabel)),
                                                    Label(endLabel)), NullOperand)

TacVisitBreak(T, node) ==
    emplaceInstruction(T, Jump(LabelName(T, node.label, "_end.loop")))

TacVisitContinue(T, node) ==
    CASE node.isFor ->
            emplaceInstruction(T, Jump(LabelName(T, node.label, "_increment.loop")))
      [] OTHER -> emplaceInstruction(T, Jump(LabelName(T, node.label, "_start.loop")))

TacVisitFor(T, node) ==
    LET startLabel == LabelName(T, node.label, "_start.loop")
        endLabel == LabelName(T, node.label, "_end.loop")
        incrementLabel == LabelName(T, node.label, "_increment.loop")
        i == LowerOptional(T, node.init)
        T1 == emplaceInstruction(i, Label(startLabel))
        c == LowerOptional(T1, node.condition)
        T2 == IF node.condition = NullNode THEN T1
              ELSE emplaceInstruction(c, JumpIfZero(c.result, endLabel))
        b == LowerOptional(T2, node.body)
        T3 == emplaceInstruction(b, Label(incrementLabel))
        n == LowerOptional(T3, node.increment)
    IN  CASE i.err # "none" -> i
          [] ~Failed(i) /\ c.err # "none" -> c
          [] ~Failed(i) /\ ~Failed(c) /\ b.err # "none" -> b
          [] ~Failed(i) /\ ~Failed(c) /\ ~Failed(b) /\ n.err # "none" -> n
          [] OTHER -> WithResult(emplaceInstruction(emplaceInstruction(n, Jump(startLabel)),
                                                    Label(endLabel)), NullOperand)

\* ASTNode::accept: the visit method of the node's dynamic type; a call
\* through a null pointer (the callers do not check node->child) is the
\* exception "segfault", and an exception in flight stays in flight
Lower(T, node) ==
    LET type == IF Failed(T) THEN "thrown" ELSE node.t
    IN  CASE type = "thrown" -> T
          [] type = "Null" -> Throw(T, "segfault", "null pointer dereference")
          [] type = "FunctionDefinition" -> TacVisitFunctionDefinition(T, node)
          [] type = "Declaration" -> TacVisitDeclaration(T, node)
          [] type = "Assignment" -> TacVisitAssignment(T, node)
          [] type = "Return" -> TacVisitReturn(T, node)
          [] type = "Unary" -> TacVisitUnary(T, node)
          [] type = "Binary" -> TacVisitBinary(T, node)
          [] type = "Const" -> TacVisitConst(T, node)
          [] type = "Variable" -> TacVisitVariable(T, node)
          [] type = "Postfix" -> TacVisitPostfix(T, node)
          [] type = "Prefix" -> TacVisitPrefix(T, node)
          [] type = "Condition" -> TacVisitCondition(T, node)
          [] type = "Block" -> TacVisitBlock(T, node)
          [] type = "While" -> TacVisitWhile(T, node)
          [] type = "Break" -> TacVisitBreak(T, node)
          [] type = "Continue" -> TacVisitContinue(T, node)
          [] type = "For" -> TacVisitFor(T, node)
          [] type = "Program" -> Throw(T, "logic_error", "ProgramNode should not be visited")

(***************************************************************************)
(* makeAssembly (the emitter).  A line of assembly is kept as the record   *)
(* [op, a, b] of its mnemonic and its operands in AT&T order, and          *)
(* LineText renders the characters written to the stream.                  *)
(***************************************************************************)
Imm(n) == [k |-> "imm", v |-> n, s |-> ""]
Mem(offset) == [k |-> "mem", v |-> offset, s |-> "rbp"]
Reg(name) == [k |-> "reg", v |-> 0, s |-> name]
LabelRef(name) == [k |-> "label", v |-> 0, s |-> name]
NoOperand == [k |-> "none", v |-> 0, s |-> ""]

Line(op, a, b) == [op |-> op, a |-> a, b |-> b]

\* OperandToAsm: "${}" for a Number, "-{}(%rbp)" with 4 * position for a register
operandToAsm(operand) ==
    IF operand.k = "Number" THEN Imm(operand.v) ELSE Mem(4 * operand.v)

OperandText(o) ==
    CASE o.k = "imm" -> "$" \o ToString(o.v)
      [] o.k = "mem" -> "-" \o ToString(o.v) \o "(%" \o o.s \o ")"
      [] o.k = "reg" -> "%" \o o.s
      [] o.k = "label" -> o.s
      [] o.k = "none" -> ""

\* the text of one line, as the std::format calls of makeAssembly write it
LineText(l) ==
    IF l.op = "label" THEN l.a.s \o ":"
    ELSE IF l.op = ".global" THEN ".global " \o l.a.s
    ELSE IF l.a.k = "none" THEN l.op
    ELSE IF l.b.k = "none" THEN l.op \o " " \o OperandText(l.a)
    ELSE l.op \o " " \o OperandText(l.a) \o ", " \o OperandText(l.b)

UnaryOpMakeAssembly(ins) ==
    LET dest == Mem(4 * ins.dest)
    IN  <<Line("movl", operandToAsm(ins.arg), Reg("r10d")),
          Line("movl", Reg("r10d"), dest)>>
        \o (CASE ins.op = "NEGATION" -> <<Line("negl", dest, NoOperand)>>
              [] ins.op = "BITWISE_NOT" -> <<Line("notl", dest, NoOperand)>>
              [] ins.op = "LOGICAL_NOT" ->
                    <<Line("cmpl", Imm(0), dest), Line("sete", dest, NoOperand)>>
              [] OTHER -> <<>>)

\* the opcode of the first branch of BinaryOpInstruction::makeAssembly
ArithmeticOpcode(op) ==
    CASE op = "ADD" -> "addl"
      [] op = "SUBTRACT" -> "subl"
      [] op = "BITWISE_AND" -> "andl"
      [] op = "BITWISE_OR" -> "orl"
      [] op = "BITWISE_XOR" -> "xorl"
      [] op = "SHIFT_LEFT" -> "shll"
      [] op = "SHIFT_RIGHT" -> "shrl"

\* the setcc of the comparison branch
SetOpcode(op) ==
    CASE op = "EQUALS" -> "sete"
      [] op = "NOT_EQUALS" -> "setne"
      [] op = "LESS_THAN" -> "setl"
      [] op = "GREATER_THAN" -> "setg"
      [] op = "LESS_THAN_OR_EQUAL" -> "setle"
      [] op = "GREATER_THAN_OR_EQUAL" -> "setge"

BinaryOpMakeAssembly(ins) ==
    LET src1 == operandToAsm(ins.left)
        src2 == operandToAsm(ins.right)
        d == Mem(4 * ins.dest)
        src2IsImmediate == src2.k = "imm"
    IN  IF ins.op \in {"SHIFT_LEFT", "SHIFT_RIGHT"}
        THEN <<Line("movl", src1, Reg("r10d"))>>
             \o (IF src2IsImmediate
                 THEN <<Line(ArithmeticOpcode(ins.op), src2, Reg("r10d"))>>
                 ELSE <<Line("movl", src2, Reg("ecx")),
                        Line(ArithmeticOpcode(ins.op), Reg("cl"), Reg("r10d"))>>)
             \o <<Line("movl", Reg("r10d"), d)>>
        ELSE IF ins.op \in {"ADD", "SUBTRACT", "BITWISE_AND", "BITWISE_OR", "BITWISE_XOR"}
        THEN <<Line("movl", src1, Reg("r10d"))>>
             \o (IF src2IsImmediate
                 THEN <<Line(ArithmeticOpcode(ins.op), src2, Reg("r10d"))>>
                 ELSE <<Line("movl", src2, Reg("r11d")),
                        Line(ArithmeticOpcode(ins.op), Reg("r11d"), Reg("r10d"))>>)
             \o <<Line("movl", Reg("r10d"), d)>>
        ELSE IF ins.op = "MULTIPLY"
        THEN <<Line("movl", src1, Reg("r11d"))>>
             \o (IF src2IsImmediate
                 THEN <<Line("imull", src2, Reg("r11d"))>>
                 ELSE <<Line("movl", src2, Reg("r10d")),
                        Line("imull", Reg("r10d"), Reg("r11d"))>>)
             \o <<Line("movl", Reg("r11d"), d)>>
        ELSE IF ins.op \in {"DIVIDE", "MODULO"}
        THEN <<Line("movl", src1, Reg("eax")),
               Line("cdq", NoOperand, NoOperand),
               Line("movl", src2, Reg("ecx")),
               Line("idiv", Reg("ecx"), NoOperand),
               Line("movl", Reg(IF ins.op = "DIVIDE" THEN "eax" ELSE "edx"), d)>>
        ELSE IF ins.op \in {"EQUALS", "NOT_EQUALS", "LESS_THAN", "GREATER_THAN",
                            "LESS_THAN_OR_EQUAL", "GREATER_THAN_OR_EQUAL"}
        THEN <<Line("movl", src1, Reg("edx")),
               Line("cmpl", src2, Reg("edx")),
               Line("movl", Imm(0), d),
               Line(SetOpcode(ins.op), d, NoOperand)>>
        ELSE <<>>

\* JumpIfZero ("je") and JumpIfNotZero ("jne")
ConditionalJumpMakeAssembly(ins, jcc) ==
    <<Line("movl", operandToAsm(ins.op), Reg("edx")),
      Line("cmpl", Imm(0), Reg("edx")),
      Line(jcc, LabelRef(ins.label), NoOperand)>>

StoreValueMakeAssembly(ins) ==
    IF ins.val.k = "PseudoRegister"
    THEN <<Line("movl", operandToAsm(ins.val), Reg("r10d")),
           Line("movl", Reg("r10d"), Mem(4 * ins.dest))>>
    ELSE <<Line("movl", operandToAsm(ins.val), Mem(4 * ins.dest))>>

ReturnMakeAssembly(ins) ==
    <<Line("movl", operandToAsm(ins.val), Reg("eax")),
      Line("movq", Reg("rbp"), Reg("rsp")),
      Line("popq", Reg("rbp"), NoOperand),
      Line("ret", NoOperand, NoOperand)>>

FunctionMakeAssembly(ins) ==
    <<Line(".global", LabelRef(ins.name), NoOperand),
      Line("label", LabelRef(ins.name), NoOperand),
      Line("pushq", Reg("rbp"), NoOperand),
      Line("movq", Reg("rsp"), Reg("rbp"))>>

\* TACInstruction::makeAssembly of the instruction's dynamic type
makeAssembly(ins, body) ==
    CASE ins.i = "Function" -> FunctionMakeAssembly(ins)
      [] ins.i = "AllocateStack" -> <<Line("subq", Imm(body.variableCount * 4), Reg("rsp"))>>
      [] ins.i = "UnaryOp" -> UnaryOpMakeAssembly(ins)
      [] ins.i = "BinaryOp" -> BinaryOpMakeAssembly(ins)
      [] ins.i = "JumpIfZero" -> ConditionalJumpMakeAssembly(ins, "je")
      [] ins.i = "JumpIfNotZero" -> ConditionalJumpMakeAssembly(ins, "jne")
      [] ins.i = "Jump" -> <<Line("jmp", LabelRef(ins.label), NoOperand)>>
      [] ins.i = "Label" -> <<Line("label", LabelRef(ins.label), NoOperand)>>
      [] ins.i = "StoreValue" -> StoreValueMakeAssembly(ins)
      [] ins.i = "Return" -> ReturnMakeAssembly(ins)

RECURSIVE Assemble(_, _)
\* for (const auto& instruction : body.instructions) instruction->makeAssembly(ss, body);
Assemble(body, i) ==
    IF i > Len(body.instructions) THEN <<>>
    ELSE makeAssembly(body.instructions[i], body) \o Assemble(body, i + 1)

(***************************************************************************)
(* Execution of the emitted lines by the test fixture's simulator          *)
(* (Simulator::loadProgram, Simulator::execute), which assembles the text  *)
(* and runs it as x86-64 code.  The machine state keeps the five 32-bit    *)
(* registers the emitter uses, the frame's 4-byte slots below %rbp, and    *)
(* the operands of the last cmpl (every setcc and jcc the emitter writes   *)
(* follows a cmpl with only movl in between).                              *)
(***************************************************************************)
Registers == {"r10d", "r11d", "eax", "ecx", "edx"}

\* positions of the lines that define the label
LabelLines(asm, name) ==
    {i \in 1..Len(asm) : asm[i].op = "label" /\ asm[i].a.s = name}

\* the assembler rejects a label defined twice and a jump to an undefined label
Assembles(asm) ==
    \A i \in 1..Len(asm) :
        /\ asm[i].op = "label" => Cardinality(LabelLines(asm, asm[i].a.s)) = 1
        /\ asm[i].op \in {"jmp", "je", "jne"} => LabelLines(asm, asm[i].a.s) # {}

loadProgram(asm) ==
    [ip |-> 1, regs |-> [r \in Registers |-> 0], mem |-> <<>>,
     cmpDst |-> 0, cmpSrc |-> 0,
     status |-> IF Assembles(asm) THEN "running" ELSE "assembler_error"]

Fault(cpu, why) == [cpu EXCEPT !.status = why]

InFrame(cpu, o) == o.k # "mem" \/ (o.v % 4 = 0 /\ (o.v \div 4) \in DOMAIN cpu.mem)

ReadOperand(cpu, o) ==
    CASE o.k = "imm" -> o.v
      [] o.k = "mem" -> cpu.mem[o.v \div 4]
      [] o.k = "reg" -> IF o.s = "cl" THEN cpu.regs["ecx"] % 256 ELSE cpu.regs[o.s]

WriteOperand(cpu, o, value) ==
    IF o.k = "mem" THEN [cpu EXCEPT !.mem[o.v \div 4] = value]
    ELSE [cpu EXCEPT !.regs[o.s] = value]

\* the condition a setcc or jcc tests after "cmpl src, dst"
ConditionHolds(cpu, cc) ==
    CASE cc \in {"sete", "je"} -> cpu.cmpDst = cpu.cmpSrc
      [] cc \in {"setne", "jne"} -> cpu.cmpDst # cpu.cmpSrc
      [] cc = "setl" -> cpu.cmpDst < cpu.cmpSrc
      [] cc = "setg" -> cpu.cmpDst > cpu.cmpSrc
      [] cc = "setle" -> cpu.cmpDst <= cpu.cmpSrc
      [] cc = "setge" -> cpu.cmpDst >= cpu.cmpSrc

\* the 32-bit result of a two-operand instruction "op src, dst"
Alu(op, src, dst) ==
    CASE op = "addl" -> Add32(dst, src)
      [] op = "subl" -> Sub32(dst, src)
      [] op = "andl" -> And32(dst, src)
      [] op = "orl" -> Or32(dst, src)
      [] op = "xorl" -> Xor32(dst, src)
      [] op = "shll" -> Shl32(dst, ShiftCount(src))
      [] op = "shrl" -> Shr32(dst, ShiftCount(src))
      [] op = "imull" -> Mul32(dst, src)

Advance(cpu) == [cpu EXCEPT !.ip = @ + 1]

\* one instruction of the loaded program
Execute(cpu, asm) ==
    LET l == asm[cpu.ip]
    IN  IF ~InFrame(cpu, l.a) \/ ~InFrame(cpu, l.b) THEN Fault(cpu, "bad_access")
        ELSE CASE l.op \in {".global", "label", "pushq", "popq", "movq"} -> Advance(cpu)
               [] l.op = "subq" ->
                    Advance([cpu EXCEPT !.mem = [p \in 1..(l.a.v \div 4) |-> 0]])
               [] l.op = "movl" -> Advance(WriteOperand(cpu, l.b, ReadOperand(cpu, l.a)))
               [] l.op = "negl" -> Advance(WriteOperand(cpu, l.a, Neg32(ReadOperand(cpu, l.a))))
               [] l.op = "notl" -> Advance(WriteOperand(cpu, l.a, Not32(ReadOperand(cpu, l.a))))
               [] l.op = "cmpl" ->
                    Advance([cpu EXCEPT !.cmpDst = ReadOperand(cpu, l.b),
                                        !.cmpSrc = ReadOperand(cpu, l.a)])
               [] l.op \in {"sete", "setne", "setl", "setg", "setle", "setge"} ->
                    Advance(WriteOperand(cpu, l.a,
                        SetLowByte(ReadOperand(cpu, l.a),
                                   IF ConditionHolds(cpu, l.op) THEN 1 ELSE 0)))
               [] l.op \in {"addl", "subl", "andl", "orl", "xorl", "shll", "shrl", "imull"} ->
                    Advance(WriteOperand(cpu, l.b,
                        Alu(l.op, ReadOperand(cpu, l.a), ReadOperand(cpu, l.b))))
               [] l.op = "cdq" ->
                    Advance([cpu EXCEPT !.regs["edx"] = IF cpu.regs["eax"] < 0 THEN -1 ELSE 0])
               [] l.op = "idiv" ->
                    IF ~DivDefined(cpu.regs["eax"], ReadOperand(cpu, l.a))
                    THEN Fault(cpu, "divide_error")
                    ELSE Advance([cpu EXCEPT
                            !.regs["eax"] = Quot32(cpu.regs["eax"], ReadOperand(cpu, l.a)),
                            !.regs["edx"] = Rem32(cpu.regs["eax"], ReadOperand(cpu, l.a))])
               [] l.op = "jmp" ->
                    [cpu EXCEPT !.ip = CHOOSE i \in LabelLines(asm, l.a.s) : TRUE]
               [] l.op \in {"je", "jne"} ->
                    IF ConditionHolds(cpu, l.op)
                    THEN [cpu EXCEPT !.ip = CHOOSE i \in LabelLines(asm, l.a.s) : TRUE]
                    ELSE Advance(cpu)
               [] l.op = "ret" -> [cpu EXCEPT !.status = "halted"]

(***************************************************************************)
(* Source programs.  The inputs are drawn from families of source trees    *)
(* [t, op, v, kids]; Render writes a tree as the token sequence of its     *)
(* source text, with every compound operand in parentheses.                *)
(***************************************************************************)
Tree(t, op, v, kids) == [t |-> t, op |-> op, v |-> v, kids |-> kids]
Lit(n) == Tree("lit", "", n, <<>>)
Var(name) == Tree("var", name, 0, <<>>)
Un(op, e) == Tree("un", op, 0, <<e>>)
Bin(op, l, r) == Tree("bin", op, 0, <<l, r>>)
Tern(c, a, b) == Tree("tern", "?", 0, <<c, a, b>>)
NoTree == Tree("none", "", 0, <<>>)
\* an input given as the chars of its source text
Text(chars) == Tree("text", "", 0, chars)

RECURSIVE Render(_)
RECURSIVE RenderAll(_, _)

\* an operand of an operator: a literal or a name as is, anything else in parentheses
Paren(e) ==
    IF e.t \in {"lit", "var"} THEN Render(e) ELSE <<Sym("(")>> \o Render(e) \o <<Sym(")")>>

\* the statements kids[i..] one after the other
RenderAll(kids, i) ==
    IF i > Len(kids) THEN <<>> ELSE Render(kids[i]) \o RenderAll(kids, i + 1)

Render(e) ==
    CASE e.t = "lit" -> <<Num(e.v)>>
      [] e.t = "var" -> <<Ident(e.op)>>
      [] e.t = "un" -> <<Sym(e.op)>> \o Paren(e.kids[1])
      [] e.t = "bin" -> Paren(e.kids[1]) \o <<Sym(e.op)>> \o Paren(e.kids[2])
      [] e.t = "tern" -> Paren(e.kids[1]) \o <<Sym("?")>> \o Paren(e.kids[2])
                         \o <<Sym(":")>> \o Paren(e.kids[3])
      [] e.t = "assign" -> Paren(e.kids[1])
                           \o (IF e.op = "" THEN <<>> ELSE <<Sym(e.op)>>) \o <<Sym("=")>>
                           \o Paren(e.kids[2])
      [] e.t = "pre" -> <<Sym(e.op)>> \o Paren(e.kids[1])
      [] e.t = "post" -> Paren(e.kids[1]) \o <<Sym(e.op)>>
      [] e.t = "return" -> <<Kw("return")>> \o Render(e.kids[1]) \o <<Sym(";")>>
      [] e.t = "expr" -> Render(e.kids[1]) \o <<Sym(";")>>
      [] e.t = "empty" -> <<Sym(";")>>
      [] e.t = "decl" -> <<Kw("int"), Ident(e.op)>>
                         \o (IF e.kids = <<>> THEN <<>> ELSE <<Sym("=")>> \o Render(e.kids[1]))
                         \o <<Sym(";")>>
      [] e.t = "block" -> <<Sym("{")>> \o RenderAll(e.kids, 1) \o <<Sym("}")>>
      [] e.t = "if" -> <<Kw("if"), Sym("(")>> \o Render(e.kids[1]) \o <<Sym(")")>>
                       \o Render(e.kids[2])
                       \o (IF Len(e.kids) = 2 THEN <<>>
                           ELSE <<Kw("else")>> \o Render(e.kids[3]))
      [] e.t = "while" -> <<Kw("while"), Sym("(")>> \o Render(e.kids[1]) \o <<Sym(")")>>
                          \o Render(e.kids[2])
      [] e.t = "do" -> <<Kw("do")>> \o Render(e.kids[2]) \o <<Kw("while"), Sym("(")>>
                       \o Render(e.kids[1]) \o <<Sym(")"), Sym(";")>>
      [] e.t = "for" -> <<Kw("for"), Sym("(")>> \o Render(e.kids[1]) \o Render(e.kids[2])
                        \o Render(e.kids[3]) \o <<Sym(")")>> \o Render(e.kids[4])
      [] e.t = "break" -> <<Kw("break"), Sym(";")>>
      [] e.t = "continue" -> <<Kw("continue"), Sym(";")>>
      [] e.t = "main" -> <<Kw("int"), Ident("main"), Sym("("), Sym(")"), Sym("{")>>
                         \o RenderAll(e.kids, 1) \o <<Sym("}")>>
      [] e.t = "none" -> <<>>

\* expressions with a side effect; op is "" for plain assignment, "+" for +=, ...
Assign(op, target, e) == Tree("assign", op, 0, <<target, e>>)
Pre(op, target) == Tree("pre", op, 0, <<target>>)
Post(op, target) == Tree("post", op, 0, <<target>>)

\* statements; the init and condition of a for are statements (Empty when
\* absent), its increment is an expression (NoTree when absent)
Return(e) == Tree("return", "", 0, <<e>>)
Expr(e) == Tree("expr", "", 0, <<e>>)
Empty == Tree("empty", "", 0, <<>>)
Decl(name) == Tree("decl", name, 0, <<>>)
DeclInit(name, e) == Tree("decl", name, 0, <<e>>)
Block(statements) == Tree("block", "", 0, statements)
If(c, a) == Tree("if", "", 0, <<c, a>>)
IfElse(c, a, b) == Tree("if", "", 0, <<c, a, b>>)
While(c, b) == Tree("while", "", 0, <<c, b>>)
DoWhile(b, c) == Tree("do", "", 0, <<c, b>>)
For(init, c, inc, b) == Tree("for", "", 0, <<init, c, inc, b>>)
Break == Tree("break", "", 0, <<>>)
Continue == Tree("continue", "", 0, <<>>)
Main(statements) == Tree("main", "", 0, statements)

(***************************************************************************)
(* The value the host language computes for an expression on 32-bit int:   *)
(* wraparound arithmetic, truncating division, arithmetic >> of a signed   *)
(* operand, 0 or 1 from comparisons and logical operators, && || ?: that   *)
(* evaluate only the operands they need.  ok is FALSE where the host       *)
(* leaves the result undefined (division by zero, INT_MIN / -1, a shift    *)
(* count outside 0..31).                                                   *)
(***************************************************************************)
Val(n) == [ok |-> TRUE, v |-> n]
Undefined == [ok |-> FALSE, v |-> 0]
Truth(b) == IF b THEN 1 ELSE 0

HostUnary(op, a) ==
    CASE op = "-" -> Neg32(a)
      [] op = "+" -> a
      [] op = "~" -> Not32(a)
      [] op = "!" -> Truth(a = 0)

HostBinary(op, a, b) ==
    CASE op = "+" -> Val(Add32(a, b))
      [] op = "-" -> Val(Sub32(a, b))
      [] op = "*" -> Val(Mul32(a, b))
      [] op = "/" -> IF DivDefined(a, b) THEN Val(Quot32(a, b)) ELSE Undefined
      [] op = "%" -> IF DivDefined(a, b) THEN Val(Rem32(a, b)) ELSE Undefined
      [] op = "&" -> Val(And32(a, b))
      [] op = "|" -> Val(Or32(a, b))
      [] op = "^" -> Val(Xor32(a, b))
      [] op = "<<" -> IF b \in 0..31 THEN Val(Shl32(a, b)) ELSE Undefined
      [] op = ">>" -> IF b \in 0..31 THEN Val(Sar32(a, b)) ELSE Undefined
      [] op = "<" -> Val(Truth(a < b))
      [] op = "<=" -> Val(Truth(a <= b))
      [] op = ">" -> Val(Truth(a > b))
      [] op = ">=" -> Val(Truth(a >= b))
      [] op = "==" -> Val(Truth(a = b))
      [] op = "!=" -> Val(Truth(a # b))

RECURSIVE HostEval(_)
HostEval(e) ==
    CASE e.t = "lit" -> Val(e.v)
      [] e.t = "un" ->
            LET a == HostEval(e.kids[1])
            IN  IF a.ok THEN Val(HostUnary(e.op, a.v)) ELSE Undefined
      [] e.t = "bin" ->
            LET a == HostEval(e.kids[1])
                b == HostEval(e.kids[2])
            IN  IF ~a.ok THEN Undefined
                ELSE IF e.op = "&&" THEN (IF a.v = 0 THEN Val(0)
                                          ELSE IF b.ok THEN Val(Truth(b.v # 0)) ELSE Undefined)
                ELSE IF e.op = "||" THEN (IF a.v # 0 THEN Val(1)
                                          ELSE IF b.ok THEN Val(Truth(b.v # 0)) ELSE Undefined)
                ELSE IF b.ok THEN HostBinary(e.op, a.v, b.v) ELSE Undefined
      [] e.t = "tern" ->
            LET c == HostEval(e.kids[1])
            IN  IF ~c.ok THEN Undefined
                ELSE IF c.v # 0 THEN HostEval(e.kids[2]) ELSE HostEval(e.kids[3])
      [] OTHER -> Undefined

(***************************************************************************)
(* The host language's execution of a whole program: block scopes, loops,  *)
(* break, continue and return, and expressions with side effects.  A host  *)
(* state carries the bindings in scope (innermost last), the block depth,  *)
(* the control state ("run", "break", "continue", "return", or "undefined" *)
(* where the host leaves the behaviour undefined or a loop takes more than *)
(* HostFuel rounds) and the value of the last expression.                  *)
(***************************************************************************)
HostFuel == 6

HostState == [vars |-> <<>>, depth |-> 0, ctl |-> "run", v |-> 0]

Binding(name, depth) == [name |-> name, depth |-> depth, v |-> 0, ok |-> FALSE]

\* the innermost binding of a name, 0 without one
LastIndex(bindings, name) ==
    LET S == {i \in 1..Len(bindings) : bindings[i].name = name}
    IN  IF S = {} THEN 0 ELSE CHOOSE i \in S : \A j \in S : j <= i

HostUndefined(st) == [st EXCEPT !.ctl = "undefined"]

HostStore(st, name, v) ==
    LET Store(i) == IF i = 0 THEN HostUndefined(st)
                    ELSE [st EXCEPT !.vars[i].v = v, !.vars[i].ok = TRUE, !.v = v]
    IN  Store(LastIndex(st.vars, name))

\* the end of a block or of a for statement: its bindings go
HostLeave(st) ==
    [st EXCEPT !.vars = SelectSeq(@, LAMBDA b : b.depth < st.depth), !.depth = @ - 1]

RECURSIVE Host(_, _)

\* the value of a variable: undefined before its declaration or first store
HostRead(st, name) ==
    LET i == LastIndex(st.vars, name)
    IN  CASE i = 0 -> HostUndefined(st)
          [] i # 0 /\ ~st.vars[i].ok -> HostUndefined(st)
          [] OTHER -> [st EXCEPT !.v = st.vars[i].v]

\* the operator of a binary expression on its left value and the state b
\* after its right operand
HostApply(op, a, b) ==
    CASE op \in {"&&", "||"} -> [b EXCEPT !.v = Truth(b.v # 0)]
      [] op \notin {"&&", "||"} /\ HostBinary(op, a, b.v).ok ->
            [b EXCEPT !.v = HostBinary(op, a, b.v).v]
      [] OTHER -> HostUndefined(b)

\* the store of assignment e in the state r after its right operand
HostAssign(e, r) ==
    LET name == e.kids[1].op
        i == LastIndex(r.vars, name)
        isVar == e.kids[1].t = "var"
        known == isVar /\ i # 0 /\ r.vars[i].ok
    IN  CASE ~isVar -> HostUndefined(r)
          [] isVar /\ e.op = "" -> HostStore(r, name, r.v)
          [] isVar /\ e.op # "" /\ ~known -> HostUndefined(r)
          [] known /\ e.op # "" /\ ~HostBinary(e.op, r.vars[i].v, r.v).ok -> HostUndefined(r)
          [] OTHER -> HostStore(r, name, HostBinary(e.op, r.vars[i].v, r.v).v)

\* ++ and -- before or after a variable
HostStep(e, st) ==
    LET name == e.kids[1].op
        i == LastIndex(st.vars, name)
        known == e.kids[1].t = "var" /\ i # 0 /\ st.vars[i].ok
        stepped == HostStore(st, name, Add32(st.vars[i].v, IF e.op = "++" THEN 1 ELSE -1))
    IN  CASE ~known -> HostUndefined(st)
          [] known /\ e.t = "pre" -> stepped
          [] OTHER -> [stepped EXCEPT !.v = st.vars[i].v]

\* the statements kids[i..] one after the other
Statements(kids, i) == [t |-> "statements", kids |-> kids, i |-> i]

\* the rounds of loop s until it ends, at most left of them
Rounds(s, left) == [t |-> "rounds", loop |-> s, left |-> left]

\* one round of a while, do or for loop, from the test of its condition: the
\* control state is "exit" when the loop has ended
Round(s) == [t |-> "round", loop |-> s]

\* the execution of expression or statement e from state st; nothing more
\* is executed once control has left (break, continue, return)
Host(e, st) ==
    LET type == IF st.ctl # "run" THEN "left" ELSE e.t
    IN  CASE st.ctl # "run" -> st
          [] type = "lit" -> [st EXCEPT !.v = e.v]
          [] type = "var" -> HostRead(st, e.op)
          [] type = "un" ->
                LET a == Host(e.kids[1], st)
                IN  CASE a.ctl # "run" -> a
                      [] OTHER -> [a EXCEPT !.v = HostUnary(e.op, a.v)]
          [] type = "bin" ->
                LET a == Host(e.kids[1], st)
                    b == Host(e.kids[2], a)
                    short == \/ e.op = "&&" /\ a.v = 0
                             \/ e.op = "||" /\ a.v # 0
                IN  CASE a.ctl # "run" -> a
                      [] a.ctl = "run" /\ short -> [a EXCEPT !.v = Truth(e.op = "||")]
                      [] a.ctl = "run" /\ ~short /\ b.ctl # "run" -> b
                      [] OTHER -> HostApply(e.op, a.v, b)
          [] type = "tern" ->
                LET c == Host(e.kids[1], st)
                IN  CASE c.ctl # "run" -> c
                      [] c.ctl = "run" /\ c.v # 0 -> Host(e.kids[2], c)
                      [] OTHER -> Host(e.kids[3], c)
          [] type = "assign" ->
                LET r == Host(e.kids[2], st)
                IN  CASE r.ctl # "run" -> r
                      [] OTHER -> HostAssign(e, r)
          [] type \in {"pre", "post"} -> HostStep(e, st)
          [] type = "return" ->
                LET r == Host(e.kids[1], st)
                IN  CASE r.ctl # "run" -> r
                      [] OTHER -> [r EXCEPT !.ctl = "return"]
          [] type = "expr" -> Host(e.kids[1], st)
          [] type = "empty" -> st
          [] type = "decl" ->
                LET d == [st EXCEPT !.vars = Append(@, Binding(e.op, st.depth))]
                    r == Host(e.kids[1], d)
                IN  CASE e.kids = <<>> -> d
                      [] e.kids # <<>> /\ r.ctl # "run" -> r
                      [] OTHER -> HostStore(r, e.op, r.v)
          [] type = "block" ->
                HostLeave(Host(Statements(e.kids, 1), [st EXCEPT !.depth = @ + 1]))
          [] type = "statements" ->
                CASE e.i > Len(e.kids) -> st
                  [] OTHER -> Host(Statements(e.kids, e.i + 1), Host(e.kids[e.i], st))
          [] type = "if" ->
                LET c == Host(e.kids[1], st)
                IN  CASE c.ctl # "run" -> c
                      [] c.ctl = "run" /\ c.v # 0 -> Host(e.kids[2], c)
                      [] c.ctl = "run" /\ c.v = 0 /\ Len(e.kids) = 3 -> Host(e.kids[3], c)
                      [] OTHER -> c
          [] type = "while" -> Host(Rounds(e, HostFuel), st)
          [] type = "do" ->
                LET b == Host(e.kids[2], st)
                IN  CASE b.ctl = "break" -> [b EXCEPT !.ctl = "run"]
                      [] b.ctl \in {"return", "undefined"} -> b
                      [] OTHER -> Host(Rounds(e, HostFuel), [b EXCEPT !.ctl = "run"])
          [] type = "for" ->
                HostLeave(Host(Rounds(e, HostFuel),
                               Host(e.kids[1], [st EXCEPT !.depth = @ + 1])))
          [] type = "rounds" ->
                LET r == Host(Round(e.loop), st)
                IN  CASE e.left = 0 -> HostUndefined(st)
                      [] e.left # 0 /\ r.ctl = "exit" -> [r EXCEPT !.ctl = "run"]
                      [] e.left # 0 /\ r.ctl \in {"return", "undefined"} -> r
                      [] OTHER -> Host(Rounds(e.loop, e.left - 1), r)
          [] type = "round" ->
                LET s == e.loop
                    isFor == s.t = "for"
                    c == Host(IF isFor THEN s.kids[2] ELSE s.kids[1], st)
                    goesOn == c.ctl = "run" /\ ((isFor /\ s.kids[2].t = "empty") \/ c.v # 0)
                    b == Host(IF isFor THEN s.kids[4] ELSE s.kids[2], c)
                    steps == isFor /\ s.kids[3].t # "none"
                IN  CASE c.ctl # "run" -> c
                      [] c.ctl = "run" /\ ~goesOn -> [c EXCEPT !.ctl = "exit"]
                      [] goesOn /\ b.ctl = "break" -> [b EXCEPT !.ctl = "exit"]
                      [] goesOn /\ b.ctl \in {"return", "undefined"} -> b
                      [] goesOn /\ b.ctl \in {"run", "continue"} /\ steps ->
                            Host(s.kids[3], [b EXCEPT !.ctl = "run"])
                      [] OTHER -> [b EXCEPT !.ctl = "run"]
          [] type = "break" -> [st EXCEPT !.ctl = "break"]
          [] type = "continue" -> [st EXCEPT !.ctl = "continue"]
          [] type = "main" ->
                LET r == HostLeave(Host(Statements(e.kids, 1), [st EXCEPT !.depth = @ + 1]))
                IN  CASE r.ctl = "run" -> [r EXCEPT !.ctl = "return", !.v = 0]
                      [] OTHER -> r
          [] OTHER -> HostUndefined(st)

\* the host's run of a program: ctl is "return" and v the value main returns
HostRun(tree) == Host(tree, HostState)

(***************************************************************************)
(* The state machine.  In mode "test" the unit-test fixture calls the      *)
(* pipeline on a source and runs the emitted assembly in the simulator; in *)
(* mode "cli" the compiler command (main) is run on a file.                *)
(***************************************************************************)
VARIABLES
    source,     \* the source tree of the input, its Text, or NoTree for raw tokens
    tokens,     \* the tokens of the input; of a Text, once the lexer has run
    mode,       \* "test" or "cli"
    argc,       \* main's argc
    fileExists, \* whether argv[1] names an existing file
    phase,      \* how far the pipeline has come
    run,        \* 1 for the first run of the pipeline on the input, 2 for the second
    ast,        \* the ProgramNode, as parsed and then as rewritten by the resolver
    err,        \* the exception that ended the pipeline, "none" without one
    msg,        \* its message
    body,       \* the FunctionBody
    asm,        \* the emitted lines
    out,        \* the text written to the output stream
    out1,       \* the text the first run wrote, once a second run has begun
    cpu,        \* the simulator's machine state
    exitCode,   \* the exit status of the command, once phase is "exited"
    stderr,     \* what the command wrote to standard error
    outFile     \* the output file: "absent", "empty" (opened) or "written"

vars == <<source, tokens, mode, argc, fileExists, phase, run, ast, err, msg, body, asm,
          out, out1, cpu, exitCode, stderr, outFile>>

input == <<source, tokens, mode, argc, fileExists>>

\* the value an uninitialised int loopLabelCount may hold
GarbageValues == {0, 7}

IdleCpu == [loadProgram(<<>>) EXCEPT !.status = "idle"]

\* the state before the pipeline starts on an input
InitOn(tree, toks, m, n, exists) ==
    /\ source = tree
    /\ tokens = toks
    /\ mode = m
    /\ argc = n
    /\ fileExists = exists
    /\ phase = "start"
    /\ run = 1
    /\ ast = NullNode
    /\ err = "none"
    /\ msg = ""
    /\ body = FunctionBody("")
    /\ asm = <<>>
    /\ out = <<>>
    /\ out1 = <<>>
    /\ cpu = IdleCpu
    /\ exitCode = 0
    /\ stderr = <<>>
    /\ outFile = "absent"

\* main, lines 11-14: no input file argument
MainUsage ==
    /\ mode = "cli" /\ phase = "start" /\ argc < 2
    /\ stderr' = Append(stderr, "Usage")
    /\ exitCode' = 1
    /\ phase' = "exited"
    /\ UNCHANGED <<input, run, ast, err, msg, body, asm, out, out1, cpu, outFile>>

\* main, lines 16-20: the input file does not exist
MainFileNotFound ==
    /\ mode = "cli" /\ phase = "start" /\ argc >= 2 /\ ~fileExists
    /\ stderr' = Append(stderr, "File not found")
    /\ exitCode' = 1
    /\ phase' = "exited"
    /\ UNCHANGED <<input, run, ast, err, msg, body, asm, out, out1, cpu, outFile>>

\* a compile that goes on with the next stage after an exception
PhaseAfterRecovering(failed, next) == next

\* the phase after a stage of compile: an exception leaves compile, so that no
\* later stage runs
PhaseAfter(failed, next) == IF failed THEN "threw" ELSE next

\* compile: Lexer lexer(source); lexer.lex().  An assertion of the C library
\* stops the process.
Lex ==
    /\ phase = "start" /\ source.t = "text"
    /\ mode = "cli" => argc >= 2 /\ fileExists
    /\ \E ctype \in CtypeOnNegative :
          LET Lexed(L) ==
                  IF L.aborted
                  THEN /\ phase' = "threw" /\ err' = "abort" /\ msg' = "Debug Assertion Failed"
                       /\ UNCHANGED tokens
                  ELSE /\ phase' = "lexed" /\ tokens' = L.tokens
                       /\ UNCHANGED <<err, msg>>
          IN  Lexed(lex(source.kids, Lexer(1), ctype))
    /\ outFile' = IF mode = "cli" THEN "empty" ELSE outFile
    /\ UNCHANGED <<source, mode, argc, fileExists, run, ast, body, asm, out, out1, cpu,
                   exitCode, stderr>>

\* compile: Parser parser(tokens); parser.parse().  The command has opened the
\* output file before calling compile.  loopLabelCount starts at whatever the
\* uninitialised member holds.
Parse ==
    /\ phase = IF source.t = "text" THEN "lexed" ELSE "start"
    /\ mode = "cli" => argc >= 2 /\ fileExists
    /\ \E garbage \in GarbageValues :
          LET Parsed(P) ==
                  /\ phase' = PhaseAfter(Failed(P), "parsed")
                  /\ IF Failed(P)
                     THEN /\ err' = P.err /\ msg' = P.msg
                          /\ UNCHANGED ast
                     ELSE /\ ast' = P.node
                          /\ UNCHANGED <<err, msg>>
          IN  Parsed(parseProgram(Parser(tokens, garbage)))
    /\ outFile' = IF mode = "cli" THEN "empty" ELSE outFile
    /\ UNCHANGED <<input, run, body, asm, out, out1, cpu, exitCode, stderr>>

\* FunctionDefinitionNode::generate: accept(resolver)
ResolveVariables ==
    /\ phase = "parsed"
    /\ LET f == ast.function_declaration
           R == Resolve(VariableResolutionVisitor(f.identifier), f)
       IN  /\ phase' = PhaseAfter(Failed(R), "resolved")
           /\ IF Failed(R)
              THEN /\ err' = R.err /\ msg' = R.msg
                   /\ UNCHANGED ast
              ELSE /\ ast' = [ast EXCEPT !.function_declaration = R.node]
                   /\ UNCHANGED <<err, msg>>
    /\ UNCHANGED <<input, run, body, asm, out, out1, cpu, exitCode, stderr, outFile>>

\* a generate without the default return statement
WithoutDefaultReturn(b) == b

\* the default return statement of main
WithDefaultReturn(b) ==
    IF b.instructions[Len(b.instructions)].i # "Return" /\ b.name = "main"
    THEN [b EXCEPT !.instructions = Append(@, ReturnInstruction(NumberOperand(0)))]
    ELSE b

\* FunctionDefinitionNode::generate: accept(visitor) and the default return
LowerToTac ==
    /\ phase = "resolved"
    /\ LET f == ast.function_declaration
           T == Lower(TacVisitor(FunctionBody(f.identifier)), f)
       IN  /\ phase' = PhaseAfter(Failed(T), "lowered")
           /\ IF Failed(T)
              THEN /\ err' = T.err /\ msg' = T.msg
                   /\ UNCHANGED body
              ELSE /\ body' = WithDefaultReturn(T.body)
                   /\ UNCHANGED <<err, msg>>
    /\ UNCHANGED <<input, run, ast, asm, out, out1, cpu, exitCode, stderr, outFile>>

\* a Return of a null operand: makeAssembly dereferences the null pointer
NullReturn(b) ==
    \E i \in 1..Len(b.instructions) :
        b.instructions[i].i = "Return" /\ b.instructions[i].val.k = "nullptr"

\* FunctionDefinitionNode::generate: makeAssembly of every instruction into ss,
\* then context.out << ss.str()
EmitAssembly ==
    /\ phase = "lowered"
    /\ IF NullReturn(body)
       THEN /\ phase' = "threw" /\ err' = "segfault" /\ msg' = "null pointer dereference"
            /\ UNCHANGED <<asm, out, outFile>>
       ELSE /\ phase' = "emitted"
            /\ asm' = Assemble(body, 1)
            /\ out' = [i \in 1..Len(Assemble(body, 1)) |-> LineText(Assemble(body, 1)[i])]
            /\ outFile' = IF mode = "cli" THEN "written" ELSE outFile
            /\ UNCHANGED <<err, msg>>
    /\ UNCHANGED <<input, run, ast, body, out1, cpu, exitCode, stderr>>

\* a second run of the pipeline on the same source
Recompile ==
    /\ mode = "test" /\ phase = "emitted" /\ run = 1
    /\ run' = 2
    /\ out1' = out
    /\ phase' = "start"
    /\ ast' = NullNode
    /\ body' = FunctionBody("")
    /\ asm' = <<>>
    /\ out' = <<>>
    /\ UNCHANGED <<input, err, msg, cpu, exitCode, stderr, outFile>>

\* main, lines 33-37: a compiler_error is caught and reported, then return 0
MainCatch ==
    /\ mode = "cli" /\ phase = "threw" /\ err \in {"syntax_error", "semantic_error"}
    /\ stderr' = Append(stderr, msg)
    /\ exitCode' = 0
    /\ phase' = "exited"
    /\ UNCHANGED <<input, run, ast, err, msg, body, asm, out, out1, cpu, outFile>>

\* main, line 37: return 0 after compile returned
MainReturn ==
    /\ mode = "cli" /\ phase = "emitted"
    /\ exitCode' = 0
    /\ phase' = "exited"
    /\ UNCHANGED <<input, run, ast, err, msg, body, asm, out, out1, cpu, stderr, outFile>>

\* an exception that is no compiler_error, or a fault, ends the process
Crash ==
    /\ phase = "threw" /\ err \notin {"syntax_error", "semantic_error"}
    /\ exitCode' = IF err = "segfault" THEN 139 ELSE 134
    /\ phase' = "crashed"
    /\ UNCHANGED <<input, run, ast, err, msg, body, asm, out, out1, cpu, stderr, outFile>>

\* Simulator::loadProgram on the text the first run produced
LoadProgram ==
    /\ mode = "test" /\ phase = "emitted" /\ run = 1
    /\ cpu' = loadProgram(asm)
    /\ phase' = "loaded"
    /\ UNCHANGED <<input, run, ast, err, msg, body, asm, out, out1, exitCode, stderr,
                   outFile>>

\* Simulator::execute, one instruction
ExecStep ==
    /\ phase = "loaded" /\ cpu.status = "running"
    /\ cpu' = IF cpu.ip > Len(asm) THEN Fault(cpu, "bad_access") ELSE Execute(cpu, asm)
    /\ UNCHANGED <<input, phase, run, ast, err, msg, body, asm, out, out1, exitCode,
                   stderr, outFile>>

Next ==
    \/ MainUsage
    \/ MainFileNotFound
    \/ Lex
    \/ Parse
    \/ ResolveVariables
    \/ LowerToTac
    \/ EmitAssembly
    \/ Recompile
    \/ MainCatch
    \/ MainReturn
    \/ Crash
    \/ LoadProgram
    \/ ExecStep

(***************************************************************************)
(* Inputs every specification starts from: the command without an input    *)
(* file, with a missing one and with files of each outcome, and the test   *)
(* fixture on sources of each outcome.                                     *)
(***************************************************************************)
\* int main() { return 0 }
MissingSemicolon ==
    <<Kw("int"), Ident("main"), Sym("("), Sym(")"), Sym("{"), Kw("return"), Num(0),
      Sym("}")>>

\* int main(){return 0;}
ReturnZeroText ==
    <<"i", "n", "t", " ", "m", "a", "i", "n", "(", ")", "{",
      "r", "e", "t", "u", "r", "n", " ", "0", ";", "}">>

BaseTrees ==
    { Main(<<Return(Lit(0))>>),
      Main(<<Return(Var("a"))>>),
      Main(<<If(Lit(1), Empty)>>),
      Main(<<While(Lit(0), Empty), Return(Lit(0))>>) }

BaseInit ==
    \/ \E t \in BaseTrees, m \in {"test", "cli"} : InitOn(t, Render(t), m, 2, TRUE)
    \/ \E m \in {"test", "cli"} : InitOn(NoTree, MissingSemicolon, m, 2, TRUE)
    \/ InitOn(Text(ReturnZeroText), <<>>, "test", 2, TRUE)
    \/ \E n \in {1, 2}, exists \in BOOLEAN : InitOn(NoTree, <<>>, "cli", n, exists)

Init == BaseInit

Spec == Init /\ [][Next]_vars

(***************************************************************************)
(* Expressions of integer literals and the documented operators.           *)
(***************************************************************************)
SmallMax == 2
Literals == (0..SmallMax) \cup {256, INT_MAX}
UnaryOps == {"-", "+", "~", "!"}
BinaryOps == {"*", "/", "%", "+", "-", "<<", ">>", "<", "<=", ">", ">=", "==", "!=",
              "&", "^", "|", "&&", "||"}
NestingOps == {"+", ">>", "<", "&&", "||"}

\* a literal or a negated literal
Operands == {Lit(n) : n \in Literals} \cup {Un("-", Lit(n)) : n \in Literals \ {0}}
SmallOperands == {Lit(n) : n \in 0..SmallMax} \cup {Un("-", Lit(1))}

Expressions ==
    {Un(u, a) : u \in UnaryOps, a \in Operands}
    \cup {Bin(b, x, y) : b \in BinaryOps, x \in Operands, y \in Operands}
    \cup {Tern(c, x, y) : c \in SmallOperands, x \in SmallOperands, y \in SmallOperands}
    \cup {Bin(b, Bin(c, x, y), z) : b \in NestingOps, c \in NestingOps,
                                     x \in {Lit(1), Un("-", Lit(1))},
                                     y \in {Lit(0), Lit(2)}, z \in {Lit(1), Lit(2)}}
    \cup {Un(u, Bin(c, x, y)) : u \in UnaryOps, c \in NestingOps,
                                 x \in SmallOperands, y \in SmallOperands}
    \cup {Tern(Bin(c, x, Lit(1)), Un("-", x), Tern(x, Lit(2), Lit(0))) :
              c \in NestingOps, x \in SmallOperands}

InitExpr ==
    \/ BaseInit
    \/ \E e \in Expressions :
          InitOn(Main(<<Return(e)>>), Render(Main(<<Return(e)>>)), "test", 2, TRUE)

SpecExpr == InitExpr /\ [][Next]_vars

\* the source is int main() { return E; } for an expression E of literals and
\* operators on which the host defines a value
ReturnsExpression ==
    /\ source.t = "main"
    /\ Len(source.kids) = 1
    /\ source.kids[1].t = "return"
    /\ HostEval(source.kids[1].kids[1]).ok

\* C1: for every expression E of integer literals and the documented operators,
\* the compiled program int main() { return E; } compiles, runs to its return
\* and returns the 32-bit two's-complement value the host computes for E
RoundTripEvaluation ==
    (mode = "test" /\ ReturnsExpression) =>
        /\ phase \notin {"threw", "crashed"}
        /\ cpu.status \in {"idle", "running", "halted"}
        /\ cpu.status = "halted" =>
              cpu.regs["eax"] = HostEval(source.kids[1].kids[1]).v

(***************************************************************************)
(* Programs whose second statement is L && (a = v); or L || (a = v);       *)
(***************************************************************************)
ShortCircuitProgram(a0, op, l, v) ==
    Main(<<DeclInit("a", Lit(a0)),
           Expr(Bin(op, l, Assign("", Var("a"), Lit(v)))),
           Return(Var("a"))>>)

ShortCircuitPrograms ==
    {ShortCircuitProgram(a0, op, l, v) :
        a0 \in {0, 2}, op \in {"&&", "||"}, l \in Operands, v \in {1, 3}}

InitShortCircuit ==
    \/ BaseInit
    \/ \E t \in ShortCircuitPrograms : InitOn(t, Render(t), "test", 2, TRUE)

SpecShortCircuit == InitShortCircuit /\ [][Next]_vars

\* the source is int a = a0; L op (a = v); return a; with op one of && and ||
IsShortCircuitProgram ==
    /\ source.t = "main"
    /\ Len(source.kids) = 3
    /\ source.kids[1].t = "decl"
    /\ source.kids[2].t = "expr"
    /\ source.kids[2].kids[1].t = "bin"
    /\ source.kids[2].kids[1].op \in {"&&", "||"}
    /\ source.kids[2].kids[1].kids[2].t = "assign"
    /\ source.kids[3].t = "return"

\* whether the host evaluates the right operand of L op R
EvaluatesRight(e) ==
    IF e.op = "&&" THEN HostEval(e.kids[1]).v # 0 ELSE HostEval(e.kids[1]).v = 0

\* C2: in L && R the right operand is evaluated, with its assignment, exactly
\* when L is non-zero, and in L || R exactly when L is zero: the program
\* int a = a0; L op (a = v); return a; returns v in those cases and a0 otherwise
ShortCircuitEvaluation ==
    (mode = "test" /\ IsShortCircuitProgram) =>
        /\ phase \notin {"threw", "crashed"}
        /\ cpu.status \in {"idle", "running", "halted"}
        /\ cpu.status = "halted" =>
              cpu.regs["eax"] =
                  IF EvaluatesRight(source.kids[2].kids[1])
                  THEN source.kids[2].kids[1].kids[2].kids[2].v
                  ELSE source.kids[1].kids[1].v

\* 1 || (a = 1) has run to its return and left a at 0
ShortCircuitSkipped ==
    /\ mode = "test"
    /\ source = ShortCircuitProgram(0, "||", Lit(1), 1)
    /\ cpu.status = "halted"
    /\ cpu.regs["eax"] = 0

(***************************************************************************)
(* Scopes of a source tree, as the language defines them: the function     *)
(* body, every block and every for statement open a scope; a declaration   *)
(* binds its name from its own initialiser on until its scope ends.        *)
(***************************************************************************)
\* the names the statements kids[1..n] declare in the scope they stand in
DeclaredBy(kids, n) == {kids[j].op : j \in {k \in 1..n : kids[k].t = "decl"}}

\* the names a for statement's init declares
DeclaredByInit(e) == IF e.kids[1].t = "decl" THEN {e.kids[1].op} ELSE {}

RECURSIVE UsesUnbound(_, _)
\* a name is used in e where no declaration of it is in scope; bound holds the
\* names in scope where e begins
UsesUnbound(e, bound) ==
    CASE e.t = "var" -> e.op \notin bound
      [] e.t = "decl" -> \E i \in 1..Len(e.kids) : UsesUnbound(e.kids[i], bound \cup {e.op})
      [] e.t \in {"main", "block"} ->
            \E i \in 1..Len(e.kids) :
                UsesUnbound(e.kids[i], bound \cup DeclaredBy(e.kids, i - 1))
      [] e.t = "for" ->
            \/ UsesUnbound(e.kids[1], bound)
            \/ \E i \in 2..4 : UsesUnbound(e.kids[i], bound \cup DeclaredByInit(e))
      [] OTHER -> \E i \in 1..Len(e.kids) : UsesUnbound(e.kids[i], bound)

RECURSIVE DeclaresTwice(_)
\* a name is declared twice in one scope
DeclaresTwice(e) ==
    \/ /\ e.t \in {"main", "block"}
       /\ \E i \in 1..Len(e.kids) :
              e.kids[i].t = "decl" /\ e.kids[i].op \in DeclaredBy(e.kids, i - 1)
    \/ \E i \in 1..Len(e.kids) : DeclaresTwice(e.kids[i])

RECURSIVE Shadows(_, _)
\* a name is declared in a block or for init inside the scope of an outer
\* declaration of the same name
Shadows(e, bound) ==
    CASE e.t \in {"main", "block"} ->
            \E i \in 1..Len(e.kids) :
                \/ /\ e.kids[i].t = "decl"
                   /\ e.kids[i].op \in bound
                   /\ e.kids[i].op \notin DeclaredBy(e.kids, i - 1)
                \/ Shadows(e.kids[i], bound \cup DeclaredBy(e.kids, i))
      [] e.t = "for" ->
            \/ DeclaredByInit(e) \cap bound # {}
            \/ \E i \in 1..4 : Shadows(e.kids[i], bound \cup DeclaredByInit(e))
      [] OTHER -> \E i \in 1..Len(e.kids) : Shadows(e.kids[i], bound)

(***************************************************************************)
(* Programs int b = 0; X Y Z return a * 10 + b; whose statements X, Y, Z   *)
(* declare, use and shadow a in blocks and for statements.                 *)
(***************************************************************************)
AddTo(name, e) == Expr(Assign("", Var(name), Bin("+", Var(name), e)))

ScopeStatements ==
    { DeclInit("a", Lit(1)),
      Decl("a"),
      AddTo("a", Lit(2)),
      Expr(Assign("", Var("b"), Var("a"))),
      Block(<<Expr(Assign("", Var("a"), Lit(3)))>>),
      Block(<<DeclInit("a", Lit(5)), AddTo("a", Lit(1)), AddTo("b", Var("a"))>>),
      Block(<<Decl("a"), DeclInit("a", Lit(4))>>),
      Block(<<DeclInit("a", Lit(7)),
              Block(<<DeclInit("a", Lit(9)), AddTo("a", Lit(1))>>),
              AddTo("b", Var("a"))>>),
      For(DeclInit("a", Lit(0)), Expr(Bin("<", Var("a"), Lit(2))),
          Assign("", Var("a"), Bin("+", Var("a"), Lit(1))), AddTo("b", Var("a"))) }

ScopeProgram(x, y, z) ==
    Main(<<DeclInit("b", Lit(0)), x, y, z,
           Return(Bin("+", Bin("*", Var("a"), Lit(10)), Var("b")))>>)

ScopePrograms ==
    {ScopeProgram(x, y, z) : x \in ScopeStatements, y \in ScopeStatements,
                              z \in ScopeStatements}

InitScope ==
    \/ BaseInit
    \/ \E t \in ScopePrograms : InitOn(t, Render(t), "test", 2, TRUE)

SpecScope == InitScope /\ [][Next]_vars

\* the compilation has not finished yet, or it has failed with a SemanticError
FailsWithSemanticError ==
    \/ phase \in {"start", "parsed"} /\ err = "none" /\ run = 1
    \/ phase \in {"threw", "exited"} /\ err = "semantic_error"

\* C3: a program that uses a variable name where no declaration of it precedes
\* the use in a scope that is still open (never declared, declared only later,
\* or declared in a block or for statement that has ended) fails to compile
\* with SemanticError
UndeclaredUseRejected ==
    (source.t = "main" /\ UsesUnbound(source, {})) => FailsWithSemanticError

\* a use after the declaring block has ended was rejected
UseAfterScopeExitRejected ==
    /\ source = ScopeProgram(Block(<<DeclInit("a", Lit(5)), AddTo("a", Lit(1)),
                                     AddTo("b", Var("a"))>>),
                             AddTo("a", Lit(2)),
                             DeclInit("a", Lit(1)))
    /\ phase = "threw"
    /\ err = "semantic_error"
    /\ msg = "Variable out of scope"

\* every use has a declaration in scope and no scope declares a name twice
WellScoped(tree) == ~UsesUnbound(tree, {}) /\ ~DeclaresTwice(tree)

\* C4: a declaration in a nested block or in a for init of a name bound in an
\* enclosing scope shadows the outer variable until the block or for statement
\* ends: the program compiles and returns what the host returns, uses inside
\* reading and writing the inner variable, uses after it the unchanged outer one
ShadowingKeepsOuter ==
    (/\ mode = "test"
     /\ source.t = "main"
     /\ Shadows(source, {})
     /\ WellScoped(source)
     /\ HostRun(source).ctl = "return") =>
        /\ phase \notin {"threw", "crashed"}
        /\ cpu.status \in {"idle", "running", "halted"}
        /\ cpu.status = "halted" => cpu.regs["eax"] = HostRun(source).v

\* int a = 1; { int a = 5; a = a + 1; b = b + a; } a = a + 2; has returned
\* 3 * 10 + 6
ShadowedInBlock ==
    /\ mode = "test"
    /\ source = ScopeProgram(DeclInit("a", Lit(1)),
                             Block(<<DeclInit("a", Lit(5)), AddTo("a", Lit(1)),
                                     AddTo("b", Var("a"))>>),
                             AddTo("a", Lit(2)))
    /\ cpu.status = "halted"
    /\ cpu.regs["eax"] = 36

\* C5: a program that declares a name in a scope that has already declared
\* it (a duplicate at the same layer) fails to compile with SemanticError
DuplicateDeclarationRejected ==
    (source.t = "main" /\ DeclaresTwice(source)) => FailsWithSemanticError

\* int a = 1; int a; was rejected at the second declaration
DuplicateInSameBlockRejected ==
    /\ source = ScopeProgram(DeclInit("a", Lit(1)), Decl("a"), AddTo("a", Lit(2)))
    /\ phase = "threw"
    /\ err = "semantic_error"
    /\ msg = "Duplicate variable declaration"

(***************************************************************************)
(* Programs that assign to, or increment or decrement, a target: a         *)
(* variable or prefix increment (the lvalues) or any other expression.     *)
(***************************************************************************)
NonLvalueTargets ==
    { Lit(0), Lit(5), Un("-", Var("a")), Un("!", Var("a")),
      Bin("+", Var("a"), Var("b")), Bin("*", Var("a"), Lit(2)),
      Bin("&&", Var("a"), Var("b")), Tern(Var("a"), Var("a"), Var("b")),
      Assign("", Var("a"), Lit(1)), Assign("+", Var("a"), Lit(1)),
      Post("++", Var("a")), Post("--", Var("a")) }

LvalueTargets == { Var("a"), Pre("++", Var("a")), Pre("--", Var("a")) }

CompoundOps == {"+", "-", "*", "&", "<<"}

\* the operations on a target t
Updates(t) ==
    {Assign("", t, Lit(1))}
    \cup {Assign(c, t, Lit(1)) : c \in CompoundOps}
    \cup {Pre(o, t) : o \in {"++", "--"}}
    \cup {Post(o, t) : o \in {"++", "--"}}

\* the update as a statement of its own, or as an operand of the returned sum
UpdatePrograms ==
    UNION { { Main(<<DeclInit("a", Lit(1)), DeclInit("b", Lit(2)), Expr(u),
                     Return(Var("a"))>>),
              Main(<<DeclInit("a", Lit(1)), DeclInit("b", Lit(2)),
                     Return(Bin("+", u, Lit(1)))>>) } :
            u \in UNION {Updates(t) : t \in NonLvalueTargets \cup LvalueTargets} }

\* int a = 1; int b = 2; u a = 1; return a; with the target u a written
\* without parentheses
UnaryTargetProgram(u) ==
    Main(<<DeclInit("a", Lit(1)), DeclInit("b", Lit(2)),
           Expr(Assign("", Un(u, Var("a")), Lit(1))), Return(Var("a"))>>)

UnaryTargetTokens(u) ==
    SubSeq(Render(Main(<<>>)), 1, 5) \o Render(DeclInit("a", Lit(1))) \o Render(DeclInit("b", Lit(2)))
    \o <<Sym(u), Ident("a"), Sym("="), Num(1), Sym(";")>>
    \o Render(Return(Var("a"))) \o <<Sym("}")>>

InitUpdate ==
    \/ BaseInit
    \/ \E t \in UpdatePrograms : InitOn(t, Render(t), "test", 2, TRUE)
    \/ \E u \in UnaryOps :
          InitOn(UnaryTargetProgram(u), UnaryTargetTokens(u), "test", 2, TRUE)

SpecUpdate == InitUpdate /\ [][Next]_vars

RECURSIVE HasNonLvalueTarget(_)
\* the tree holds an =, a compound assignment, a ++ or a -- whose target is
\* neither a variable nor a prefix increment or decrement
HasNonLvalueTarget(e) ==
    \/ e.t \in {"assign", "pre", "post"} /\ e.kids[1].t \notin {"var", "pre"}
    \/ \E i \in 1..Len(e.kids) : HasNonLvalueTarget(e.kids[i])

\* C6: a program with an =, a compound assignment, a ++ or a -- whose target
\* is not a Variable or a Prefix node ((-x) = 1, 0 = 5, (a+b)++, ++(a+b),
\* (a += 1)++, ++(a += 1), ...) is rejected with SemanticError "Expected lvalue"
NonLvalueTargetRejected ==
    (source.t = "main" /\ HasNonLvalueTarget(source)) =>
        \/ phase = "start" /\ err = "none" /\ run = 1
        \/ phase \in {"threw", "exited"} /\ err = "semantic_error"
                                         /\ msg = "Expected lvalue"

\* (a + b)++ was rejected
PostfixOfSumRejected ==
    /\ source = Main(<<DeclInit("a", Lit(1)), DeclInit("b", Lit(2)),
                       Expr(Post("++", Bin("+", Var("a"), Var("b")))),
                       Return(Var("a"))>>)
    /\ phase = "threw"
    /\ err = "semantic_error"
    /\ msg = "Expected lvalue"

(***************************************************************************)
(* Programs with a loop inside a loop, each a while, do or for, with a     *)
(* break or continue in the inner loop and another in the outer loop after *)
(* the inner one, placed in an if, in a block of an if, or in an if of an  *)
(* if of a block.  The loops count to three; the do loops' conditions hold *)
(* on entry.                                                               *)
(***************************************************************************)
LoopKinds == {"while", "do", "for"}
Jumps == {Break, Continue}
Placements == {"if", "block", "nested"}

Guarded(placement, c, jump) ==
    CASE placement = "if" -> If(c, jump)
      [] placement = "block" -> If(c, Block(<<jump>>))
      [] placement = "nested" -> Block(<<If(Lit(1), If(c, jump))>>)

\* the statements of a loop over name = 1, 2, 3 (while, do) or 0, 1, 2 (for)
CountingLoop(kind, name, statements) ==
    CASE kind = "while" ->
            <<DeclInit(name, Lit(0)),
              While(Bin("<", Var(name), Lit(3)),
                    Block(<<AddTo(name, Lit(1))>> \o statements))>>
      [] kind = "do" ->
            <<DeclInit(name, Lit(0)),
              DoWhile(Block(<<AddTo(name, Lit(1))>> \o statements),
                      Bin("<", Var(name), Lit(3)))>>
      [] kind = "for" ->
            <<For(DeclInit(name, Lit(0)), Expr(Bin("<", Var(name), Lit(3))),
                  Assign("", Var(name), Bin("+", Var(name), Lit(1))),
                  Block(statements))>>

LoopProgram(outer, inner, placement, innerJump, outerJump) ==
    Main(<<DeclInit("r", Lit(0))>>
         \o CountingLoop(outer, "i",
                CountingLoop(inner, "j",
                    <<Guarded(placement, Bin("==", Var("j"), Lit(2)), innerJump),
                      AddTo("r", Lit(1))>>)
                \o <<AddTo("r", Lit(10)),
                     Guarded(placement, Bin("==", Var("i"), Lit(2)), outerJump),
                     AddTo("r", Lit(100))>>)
         \o <<Return(Var("r"))>>)

LoopPrograms ==
    {LoopProgram(outer, inner, placement, innerJump, outerJump) :
        outer \in LoopKinds, inner \in LoopKinds, placement \in Placements,
        innerJump \in Jumps, outerJump \in Jumps}

\* programs with a break or continue outside every loop: alone, in an if, in
\* a block, in both branches of an if, and after a loop that has ended
StrayJumpPrograms ==
    UNION { { Main(<<DeclInit("r", Lit(0)), jump, Return(Var("r"))>>),
              Main(<<DeclInit("r", Lit(0)), If(Var("r"), jump), Return(Var("r"))>>),
              Main(<<DeclInit("r", Lit(0)), Block(<<AddTo("r", Lit(1)), jump>>),
                     Return(Var("r"))>>),
              Main(<<DeclInit("r", Lit(0)),
                     IfElse(Var("r"), AddTo("r", Lit(1)), Block(<<jump>>)),
                     Return(Var("r"))>>),
              Main(<<DeclInit("r", Lit(0)),
                     While(Bin("<", Var("r"), Lit(2)), AddTo("r", Lit(1))),
                     jump, Return(Var("r"))>>),
              Main(<<DeclInit("r", Lit(0)),
                     For(Empty, Expr(Bin("<", Var("r"), Lit(2))), NoTree,
                         Block(<<AddTo("r", Lit(1)), Break>>)),
                     Guarded("nested", Var("r"), jump), Return(Var("r"))>>) } :
            jump \in Jumps }

InitLoop ==
    \/ BaseInit
    \/ \E t \in LoopPrograms \cup StrayJumpPrograms : InitOn(t, Render(t), "test", 2, TRUE)

SpecLoop == InitLoop /\ [][Next]_vars

RECURSIVE HasJump(_)
\* the tree holds a break or continue
HasJump(e) ==
    \/ e.t \in {"break", "continue"}
    \/ \E i \in 1..Len(e.kids) : HasJump(e.kids[i])

RECURSIVE JumpOutsideLoop(_, _)
\* the tree holds a break or continue that no while, do or for encloses
JumpOutsideLoop(e, inLoop) ==
    \/ e.t \in {"break", "continue"} /\ ~inLoop
    \/ \E i \in 1..Len(e.kids) :
          JumpOutsideLoop(e.kids[i], inLoop \/ e.t \in {"while", "do", "for"})

\* C7: a break leaves the innermost enclosing loop only, a continue goes on
\* with the condition of the innermost enclosing while or do and with the step
\* of the innermost enclosing for, also from inside ifs and blocks of the loop
\* body: every program with loops in loops and such jumps runs to its return
\* and returns what the host returns
JumpsBindInnermostLoop ==
    (/\ mode = "test"
     /\ source.t = "main"
     /\ HasJump(source)
     /\ ~JumpOutsideLoop(source, FALSE)) =>
        /\ phase \notin {"threw", "crashed"}
        /\ cpu.status \in {"idle", "running", "halted"}
        /\ cpu.status = "halted" =>
              /\ HostRun(source).ctl = "return"
              /\ cpu.regs["eax"] = HostRun(source).v

\* a for in a while, with continue in the for and break in the while, both
\* inside an if of an if of a block, has returned the host's value
NestedJumpsRun ==
    /\ mode = "test"
    /\ source = LoopProgram("while", "for", "nested", Continue, Break)
    /\ cpu.status = "halted"
    /\ cpu.regs["eax"] = HostRun(source).v

\* C8: a program with a break or continue that is not inside any while, do
\* or for loop fails to compile with SemanticError
StrayJumpRejected ==
    (source.t = "main" /\ JumpOutsideLoop(source, FALSE)) =>
        \/ phase \in {"start", "parsed"} /\ err = "none" /\ run = 1
        \/ /\ phase \in {"threw", "exited"}
           /\ err = "semantic_error"
           /\ msg \in {"Break statement outside of loop",
                       "Continue statement outside of loop"}

\* a continue after a loop that has ended was rejected
ContinueAfterLoopRejected ==
    /\ source = Main(<<DeclInit("r", Lit(0)),
                       While(Bin("<", Var("r"), Lit(2)), AddTo("r", Lit(1))),
                       Continue, Return(Var("r"))>>)
    /\ phase = "threw"
    /\ err = "semantic_error"
    /\ msg = "Continue statement outside of loop"

\* C9: the pipeline run twice on the same source writes the same assembly
\* text, line for line, the loop labels included
SameTextTwice ==
    (mode = "test" /\ run = 2 /\ phase = "emitted") => out = out1

\* C10: when the compilation of the input file ends in SyntaxError or
\* SemanticError, the command has written the diagnostic to standard error
\* and exits with a status other than 0
CompileErrorExitsNonZero ==
    (mode = "cli" /\ phase = "exited" /\ err \in {"syntax_error", "semantic_error"}) =>
        /\ stderr = <<msg>>
        /\ exitCode # 0

(***************************************************************************)
(* Programs in which main can reach the end of its body: no statements,    *)
(* an expression statement only, a return in an if or in one branch of an  *)
(* if, a loop that ends, a block that ends; and, for comparison, programs  *)
(* whose last statement returns.                                           *)
(***************************************************************************)
Conditions == {Lit(0), Lit(1), Bin("==", Bin("+", Lit(2), Lit(3)), Lit(6))}

FallOffPrograms ==
    { Main(<<>>), Main(<<Expr(Lit(0))>>), Main(<<Empty>>),
      Main(<<Block(<<Return(Lit(5))>>)>>),
      Main(<<DeclInit("a", Lit(3)), While(Var("a"), AddTo("a", Un("-", Lit(1))))>>),
      Main(<<DeclInit("a", Lit(3)),
             While(Var("a"), Block(<<AddTo("a", Un("-", Lit(1))),
                                     If(Bin("==", Var("a"), Lit(7)), Return(Var("a")))>>))>>),
      Main(<<For(DeclInit("i", Lit(0)), Expr(Bin("<", Var("i"), Lit(2))),
                 Assign("", Var("i"), Bin("+", Var("i"), Lit(1))),
                 If(Bin("==", Var("i"), Lit(1)), Break))>>) }
    \cup {Main(<<If(c, Return(Lit(6)))>>) : c \in Conditions}
    \cup {Main(<<IfElse(c, Return(Lit(1)), Expr(Lit(2)))>>) : c \in Conditions}
    \cup {Main(<<IfElse(c, Expr(Lit(1)), Return(Lit(2)))>>) : c \in Conditions}
    \cup {Main(<<IfElse(c, Return(Lit(1)), Return(Lit(2)))>>) : c \in Conditions}
    \cup {Main(<<DeclInit("a", c), If(Var("a"), Block(<<Return(Lit(4))>>)),
                 AddTo("a", Lit(1))>>) : c \in Conditions}
    \cup {Main(<<DeclInit("a", c), Block(<<If(Var("a"), Return(Lit(4)))>>)>>) :
              c \in Conditions}

InitFallOff ==
    \/ BaseInit
    \/ \E t \in FallOffPrograms : InitOn(t, Render(t), "test", 2, TRUE)

SpecFallOff == InitFallOff /\ [][Next]_vars

\* C11: main that reaches the end of its body without a return returns 0: the
\* lowered body of main always ends in a Return, the run never leaves the
\* emitted text, and it ends with the value the host returns (0 at the end of
\* the body)
EndOfMainReturnsZero ==
    (mode = "test" /\ source \in FallOffPrograms) =>
        /\ phase \notin {"threw", "crashed"}
        /\ phase \in {"lowered", "emitted", "loaded"} =>
              body.instructions[Len(body.instructions)].i = "Return"
        /\ cpu.status \in {"idle", "running", "halted"}
        /\ cpu.status = "halted" =>
              /\ HostRun(source).ctl = "return"
              /\ cpu.regs["eax"] = HostRun(source).v

\* if (2 + 3 == 6) return 6; as the whole body has run to the appended
\* Return(0), which follows the if's end label
SingleIfFalseReturnsZero ==
    /\ source = Main(<<If(Bin("==", Bin("+", Lit(2), Lit(3)), Lit(6)), Return(Lit(6)))>>)
    /\ phase = "loaded"
    /\ body.instructions[Len(body.instructions)] = ReturnInstruction(NumberOperand(0))
    /\ body.instructions[Len(body.instructions) - 1].i = "Label"
    /\ cpu.status = "halted"
    /\ cpu.regs["eax"] = 0

(***************************************************************************)
(* Expressions 1 op1 2 op2 3 written without parentheses, and both of      *)
(* their groupings written with parentheses.  The source tree of an input  *)
(* is the tree the precedence table of the specification gives it.         *)
(***************************************************************************)
\* the precedence table of the specification, binary operators
TablePrecedence(op) ==
    CASE op \in {"*", "/", "%"} -> 50
      [] op \in {"+", "-"} -> 45
      [] op \in {"<<", ">>"} -> 40
      [] op \in {"<", "<=", ">", ">="} -> 35
      [] op \in {"==", "!="} -> 30
      [] op = "&" -> 25
      [] op = "^" -> 20
      [] op = "|" -> 15
      [] op = "&&" -> 10
      [] op = "||" -> 5

LeftGrouped(op1, op2) == Bin(op2, Bin(op1, Lit(1), Lit(2)), Lit(3))
RightGrouped(op1, op2) == Bin(op1, Lit(1), Bin(op2, Lit(2), Lit(3)))

\* the grouping of 1 op1 2 op2 3
Grouped(op1, op2) ==
    IF TablePrecedence(op1) >= TablePrecedence(op2)
    THEN LeftGrouped(op1, op2) ELSE RightGrouped(op1, op2)

\* int main() { return e; } for the tokens e of an expression
ReturnTokens(e) ==
    <<Kw("int"), Ident("main"), Sym("("), Sym(")"), Sym("{"), Kw("return")>>
    \o e \o <<Sym(";"), Sym("}")>>

FlatTokens(op1, op2) ==
    ReturnTokens(<<Num(1), Sym(op1), Num(2), Sym(op2), Num(3)>>)

RECURSIVE AstOf(_)
\* the AST of an expression tree
AstOf(e) ==
    CASE e.t = "lit" -> ConstNode(e.v)
      [] e.t = "var" -> VariableNode(e.op)
      [] e.t = "un" -> UnaryNode(UnaryOperatorOf(SymbolValue(e.op)), AstOf(e.kids[1]))
      [] e.t = "bin" -> BinaryNode(BinaryOperatorOf(SymbolValue(e.op)),
                                   AstOf(e.kids[1]), AstOf(e.kids[2]))
      [] e.t = "tern" -> ConditionNode(AstOf(e.kids[1]), AstOf(e.kids[2]),
                                       AstOf(e.kids[3]), TRUE)
      [] e.t = "assign" /\ e.op = "" ->
            AssignmentNode(AstOf(e.kids[1]), AstOf(e.kids[2]))
      [] e.t = "assign" /\ e.op # "" ->
            AssignmentNode(AstOf(e.kids[1]),
                           BinaryNode(BinaryOperatorOf(SymbolValue(e.op)),
                                      AstOf(e.kids[1]), AstOf(e.kids[2])))
      [] e.t = "pre" -> PrefixNode(AstOf(e.kids[1]), IncDecOperator(e.op))
      [] e.t = "post" -> PostfixNode(AstOf(e.kids[1]), IncDecOperator(e.op))

\* the expression of the return statement that is the first statement of main
ReturnedExpression == ast.function_declaration.body.block_items[1].expression

InitPrecedence ==
    \/ BaseInit
    \/ \E op1 \in BinaryOps, op2 \in BinaryOps :
          \/ InitOn(Main(<<Return(Grouped(op1, op2))>>), FlatTokens(op1, op2),
                    "test", 2, TRUE)
          \/ \E t \in {LeftGrouped(op1, op2), RightGrouped(op1, op2)} :
                InitOn(Main(<<Return(t)>>), Render(Main(<<Return(t)>>)), "test", 2, TRUE)

SpecPrecedence == InitPrecedence /\ [][Next]_vars

IsGroupingInput ==
    /\ mode = "test"
    /\ source.t = "main"
    /\ Len(source.kids) = 1
    /\ source.kids[1].t = "return"
    /\ \E op1 \in BinaryOps, op2 \in BinaryOps :
          source.kids[1].kids[1] \in {LeftGrouped(op1, op2), RightGrouped(op1, op2)}

\* C12: 1 op1 2 op2 3 is parsed as (1 op1 2) op2 3 when the table gives op1 at
\* least the precedence of op2 and as 1 op1 (2 op2 3) when it gives op1 less;
\* a parenthesised operand is parsed as the operand it is written as
BinaryOperatorsGroupByTable ==
    IsGroupingInput =>
        /\ ~(phase = "threw" /\ run = 1)
        /\ (phase = "parsed" /\ run = 1) =>
              ReturnedExpression = AstOf(source.kids[1].kids[1])

\* 1 + 2 * 3 without parentheses was parsed as 1 + (2 * 3)
ProductBindsTighter ==
    /\ tokens = FlatTokens("+", "*")
    /\ phase = "parsed"
    /\ ReturnedExpression =
          BinaryNode("ADD", ConstNode(1),
                     BinaryNode("MULTIPLY", ConstNode(2), ConstNode(3)))

(***************************************************************************)
(* Assignments written without parentheses: a OP= b, a OP1= b OP2= c,       *)
(* a OP= b op c and a op b OP= c, after the declarations of a, b and c.    *)
(* The source tree of an input is the tree the precedence table of the     *)
(* specification gives it: the target is everything to the left of the     *)
(* assignment operator, the value everything to its right.                 *)
(***************************************************************************)
AssignOps == {"", "+", "-", "*", "/", "%", "&", "|", "^", "<<", ">>"}

RECURSIVE Flat(_)
\* the tokens of an expression tree written without parentheses
Flat(e) ==
    CASE e.t = "lit" -> <<Num(e.v)>>
      [] e.t = "var" -> <<Ident(e.op)>>
      [] e.t = "bin" -> Flat(e.kids[1]) \o <<Sym(e.op)>> \o Flat(e.kids[2])
      [] e.t = "assign" ->
            Flat(e.kids[1]) \o (IF e.op = "" THEN <<>> ELSE <<Sym(e.op)>>)
            \o <<Sym("=")>> \o Flat(e.kids[2])

AssignmentTrees ==
    {Assign(op, Var("a"), Var("b")) : op \in AssignOps}
    \cup {Assign(op1, Var("a"), Assign(op2, Var("b"), Var("c"))) :
              op1 \in AssignOps, op2 \in AssignOps}
    \cup {Assign(op, Var("a"), Bin(b, Var("b"), Var("c"))) :
              op \in AssignOps, b \in BinaryOps}
    \cup {Assign(op, Bin(b, Var("a"), Var("b")), Var("c")) :
              op \in AssignOps, b \in BinaryOps}

\* int main() { int a = 1; int b = 2; int c = 3; return e; }
AssignmentProgram(e) ==
    Main(<<DeclInit("a", Lit(1)), DeclInit("b", Lit(2)), DeclInit("c", Lit(3)),
           Return(e)>>)

AssignmentTokens(e) ==
    <<Kw("int"), Ident("main"), Sym("("), Sym(")"), Sym("{")>>
    \o Render(DeclInit("a", Lit(1))) \o Render(DeclInit("b", Lit(2)))
    \o Render(DeclInit("c", Lit(3)))
    \o <<Kw("return")>> \o Flat(e) \o <<Sym(";"), Sym("}")>>

InitAssign ==
    \/ BaseInit
    \/ \E e \in AssignmentTrees :
          InitOn(AssignmentProgram(e), AssignmentTokens(e), "test", 2, TRUE)

SpecAssign == InitAssign /\ [][Next]_vars

\* C13: = and the compound assignment operators have the lowest precedence
\* and associate to the right: an accepted x OP= E is parsed as x = x OP E with
\* x everything to the left of the operator and E everything to its right,
\* and it is accepted when x is a variable
AssignmentBindsLoosest ==
    (mode = "test" /\ source.t = "main" /\ Len(source.kids) = 4
     /\ source.kids[4].t = "return" /\ source.kids[4].kids[1] \in AssignmentTrees) =>
        /\ (phase = "threw" /\ run = 1) => source.kids[4].kids[1].kids[1].t # "var"
        /\ phase = "parsed" =>
              ast.function_declaration.body.block_items[4].expression
                  = AstOf(source.kids[4].kids[1])

(***************************************************************************)
(* if (E1) if (E2) S1 else S2, written without braces.  E2 stores into t,  *)
(* S1 and S2 store into r, and the program returns r * 10 + t, which tells *)
(* which of E2, S1 and S2 have run.                                        *)
(***************************************************************************)
ConditionValues == {0, 1, 2}

DanglingElse(v1, v2) ==
    Main(<<DeclInit("r", Lit(0)), DeclInit("t", Lit(5)),
           If(Lit(v1), IfElse(Assign("", Var("t"), Lit(v2)),
                              Expr(Assign("", Var("r"), Lit(1))),
                              Expr(Assign("", Var("r"), Lit(2))))),
           Return(Bin("+", Bin("*", Var("r"), Lit(10)), Var("t")))>>)

\* the same with S1 and S2 returning
DanglingElseReturns(v1, v2) ==
    Main(<<DeclInit("a", Lit(v1)), DeclInit("b", Lit(v2)),
           If(Var("a"), IfElse(Var("b"), Return(Lit(1)), Return(Lit(2)))),
           Return(Lit(3))>>)

DanglingPrograms ==
    {DanglingElse(v1, v2) : v1, v2 \in ConditionValues}
    \cup {DanglingElseReturns(v1, v2) : v1, v2 \in ConditionValues}

InitDangling ==
    \/ BaseInit
    \/ \E t \in DanglingPrograms : InitOn(t, Render(t), "test", 2, TRUE)

SpecDangling == InitDangling /\ [][Next]_vars

\* the if statement of a dangling-else program, the third statement of main
DanglingStatement == ast.function_declaration.body.block_items[3]

\* C14: in if (E1) if (E2) S1 else S2 the else belongs to the inner if: the
\* outer if is parsed without an else branch, the inner one with it, and the
\* run executes S2 exactly when E1 is non-zero and E2 is zero, S1 when both
\* are non-zero, and neither E2 nor S1 nor S2 when E1 is zero
ElseBindsToNearestIf ==
    \A v1, v2 \in ConditionValues :
        /\ (mode = "test" /\ source \in {DanglingElse(v1, v2), DanglingElseReturns(v1, v2)}) =>
              /\ phase \notin {"threw", "crashed"}
              /\ phase # "start" =>
                    /\ DanglingStatement.t = "Condition"
                    /\ DanglingStatement.ifFalse = NullNode
                    /\ DanglingStatement.ifTrue.t = "Condition"
                    /\ DanglingStatement.ifTrue.ifFalse # NullNode
        /\ (mode = "test" /\ source = DanglingElse(v1, v2) /\ cpu.status = "halted") =>
              cpu.regs["eax"] = CASE v1 = 0 -> 5
                                  [] v1 # 0 /\ v2 = 0 -> 20
                                  [] OTHER -> 10 + v2
        /\ (mode = "test" /\ source = DanglingElseReturns(v1, v2) /\ cpu.status = "halted") =>
              cpu.regs["eax"] = CASE v1 = 0 -> 3
                                  [] v1 # 0 /\ v2 = 0 -> 2
                                  [] OTHER -> 1

\* if (1) if (t = 0) r = 1; else r = 2; has run the else branch: r is 2, t is 0
InnerElseTaken ==
    /\ source = DanglingElse(1, 0)
    /\ cpu.status = "halted"
    /\ cpu.regs["eax"] = 20

(***************************************************************************)
(* if statements with an empty condition or an empty body, as the whole    *)
(* body of main or followed by a return.                                   *)
(***************************************************************************)
\* int main() { statements }
MainTokens(statements) ==
    <<Kw("int"), Ident("main"), Sym("("), Sym(")"), Sym("{")>> \o statements \o <<Sym("}")>>

IfTokens(condition, statement) ==
    <<Kw("if"), Sym("(")>> \o condition \o <<Sym(")")>> \o statement

ReturnOne == <<Kw("return"), Num(1), Sym(";")>>

\* if () S
EmptyConditionTokens ==
    {MainTokens(IfTokens(<<>>, statement) \o rest) :
        statement \in {ReturnOne, <<Sym(";")>>, <<Sym("{"), Sym("}")>>},
        rest \in {<<>>, ReturnOne}}

\* if (E) followed by no statement, and if (E) ;
EmptyBodyTokens ==
    {MainTokens(IfTokens(<<Num(c)>>, <<>>)) : c \in {0, 1}}
    \cup {MainTokens(IfTokens(<<Num(c)>>, <<Sym(";")>>) \o rest) :
              c \in {0, 1}, rest \in {<<>>, ReturnOne}}

EmptyIfTokens == EmptyConditionTokens \cup EmptyBodyTokens

InitEmptyIf ==
    \/ BaseInit
    \/ \E toks \in EmptyIfTokens, m \in {"test", "cli"} : InitOn(NoTree, toks, m, 2, TRUE)

SpecEmptyIf == InitEmptyIf /\ [][Next]_vars

\* C15: an if with an empty condition or an empty body is rejected with
\* SyntaxError: the parser does not return a tree for it, and the only
\* exception the pipeline ends with is syntax_error
EmptyIfRejected ==
    tokens \in EmptyIfTokens =>
        /\ phase \notin {"parsed", "resolved", "lowered", "emitted", "loaded", "crashed"}
        /\ err \in {"none", "syntax_error"}
        /\ phase \in {"threw", "exited"} => err = "syntax_error"

(***************************************************************************)
(* Sources with one byte that is no whitespace and starts no identifier,   *)
(* no integer literal and no punctuator: int main(){return 0;} with the    *)
(* byte put in at every position.                                          *)
(***************************************************************************)
UnknownBytes == {"#", "@", "$", "[", HighByte}

\* the chars that are whitespace or begin a token of the language
LegalChars ==
    Whitespace \cup Lowercase \cup Uppercase \cup {"_"} \cup {DigitChars[d] : d \in 1..10}
    \cup {"{", "}", "(", ")", ";", ",", "?", ":", "-", "+", "~", "!", "*", "/", "%",
          "^", "&", "|", "<", ">", "="}

\* chars with c put in after the first n of them
InsertAt(chars, n, c) == SubSeq(chars, 1, n) \o <<c>> \o SubSeq(chars, n + 1, Len(chars))

UnknownByteTexts ==
    {InsertAt(ReturnZeroText, n, c) : n \in 0..Len(ReturnZeroText), c \in UnknownBytes}

HasUnknownByte(chars) == \E i \in 1..Len(chars) : chars[i] \notin LegalChars

InitUnknownByte ==
    \/ BaseInit
    \/ \E chars \in UnknownByteTexts : InitOn(Text(chars), <<>>, "test", 2, TRUE)

SpecUnknownByte == InitUnknownByte /\ [][Next]_vars

\* C16: a byte that is no whitespace and starts no identifier, integer literal
\* or punctuator becomes an Unknown token, and the compilation of a source
\* that holds one fails with SyntaxError: the lexer hands on a token sequence
\* with an Unknown token in it, the parser returns no tree, and no exception
\* other than syntax_error ends the run
UnknownByteRejected ==
    (source.t = "text" /\ HasUnknownByte(source.kids)) =>
        /\ phase \notin {"parsed", "resolved", "lowered", "emitted", "loaded", "crashed"}
        /\ err \in {"none", "syntax_error"}
        /\ phase = "lexed" => \E i \in 1..Len(tokens) : tokens[i] = UnknownToken
        /\ phase = "threw" => err = "syntax_error"

(***************************************************************************)
(* Sources int main(){return N;} for decimal literals N around the ends of *)
(* the 31-bit and the 32-bit range.  The value a literal is written with   *)
(* is kept exactly, as three limbs to the base 2^16.                       *)
(***************************************************************************)
LiteralDigits ==
    { <<"0">>, <<"7">>, <<"0", "0", "9">>,
      <<"2", "1", "4", "7", "4", "8", "3", "6", "4", "7">>,
      <<"2", "1", "4", "7", "4", "8", "3", "6", "4", "8">>,
      <<"4", "2", "9", "4", "9", "6", "7", "2", "9", "5">>,
      <<"4", "2", "9", "4", "9", "6", "7", "2", "9", "6">>,
      <<"4", "2", "9", "4", "9", "6", "7", "3", "0", "1">>,
      <<"9", "9", "9", "9", "9", "9", "9", "9", "9", "9">>,
      <<"4", "2", "9", "4", "9", "6", "7", "2", "9", "6", "0">> }

\* int main(){return N;}
LiteralText(digits) ==
    SubSeq(ReturnZeroText, 1, 18) \o digits \o SubSeq(ReturnZeroText, 20, 21)

Limb == 2^16

\* the limbs of 10 * value + d
TimesTenPlus(limbs, d) ==
    LET low == limbs[1] * 10 + d
        middle == limbs[2] * 10 + (low \div Limb)
    IN  <<low % Limb, middle % Limb, limbs[3] * 10 + (middle \div Limb)>>

RECURSIVE WrittenValue(_, _)
\* the limbs of the value the first n digits are written with
WrittenValue(digits, n) ==
    IF n = 0 THEN <<0, 0, 0>>
    ELSE TimesTenPlus(WrittenValue(digits, n - 1), DigitValue(digits[n]))

\* the value fits in 32 bits unsigned
FitsUnsigned32(digits) == WrittenValue(digits, Len(digits))[3] = 0

\* the limbs of the unsigned value of a Number
NumberLimbs(n) == <<n % Limb, (n \div Limb) % Limb, 0>>

InitLiteral ==
    \/ BaseInit
    \/ \E digits \in LiteralDigits, m \in {"test", "cli"} :
           InitOn(Text(LiteralText(digits)), <<>>, m, 2, TRUE)

SpecLiteral == InitLiteral /\ [][Next]_vars

\* C17: the lexer fails with SyntaxError on a decimal literal above 4294967295,
\* and a Number token holds exactly the value its literal is written with
LiteralOverflowRejected ==
    \A digits \in LiteralDigits :
        source = Text(LiteralText(digits)) =>
            /\ ~FitsUnsigned32(digits) =>
                  /\ phase \in {"start", "threw", "exited"}
                  /\ phase # "start" => err = "syntax_error"
            /\ phase = "lexed" =>
                  /\ tokens[7].k = "Number"
                  /\ NumberLimbs(tokens[7].n) = WrittenValue(digits, Len(digits))

(***************************************************************************)
(* The program of the fourth row of the specification's table of           *)
(* expressions with side effects.                                          *)
(***************************************************************************)
\* int main() { int a=0; return a = ++a + a++ + (a+=2); }
MultipleOperationsText ==
    <<
      "i", "n", "t", " ", "m", "a", "i", "n", "(", ")", " ", "{", " ", "i",
      "n", "t", " ", "a", "=", "0", ";", " ", "r", "e", "t", "u", "r", "n",
      " ", "a", " ", "=", " ", "+", "+", "a", " ", "+", " ", "a", "+", "+",
      " ", "+", " ", "(", "a", "+", "=", "2", ")", ";", " ", "}" >>

\* the same with int a=1, the program of TestMultipleOperationsInOneStatement
MultipleOperationsFromOne == [MultipleOperationsText EXCEPT ![20] = "1"]

InitMultipleOperations ==
    \/ BaseInit
    \/ \E chars \in {MultipleOperationsText, MultipleOperationsFromOne}, m \in {"test", "cli"} :
           InitOn(Text(chars), <<>>, m, 2, TRUE)

SpecMultipleOperations == InitMultipleOperations /\ [][Next]_vars

\* C18, as stated: int main() { int a=0; return a = ++a + a++ + (a+=2); }
\* compiles and returns 10 when executed
MultipleOperationsReturnTen ==
    source = Text(MultipleOperationsText) =>
        /\ phase \notin {"threw", "crashed"}
        /\ cpu.status \in {"idle", "running", "halted"}
        /\ cpu.status = "halted" => cpu.regs["eax"] = 10

\* C18, amended: the program compiles and returns 7 when executed; with
\* int a=1 it returns 10.  ++a yields the register of a itself, which the sum
\* reads after a++ has stored into it, and a += 2 yields that register too.
MultipleOperationsReturnSeven ==
    /\ source = Text(MultipleOperationsText) =>
          /\ phase \notin {"threw", "crashed"}
          /\ cpu.status \in {"idle", "running", "halted"}
          /\ cpu.status = "halted" => cpu.regs["eax"] = 7
    /\ source = Text(MultipleOperationsFromOne) =>
          /\ phase \notin {"threw", "crashed"}
          /\ cpu.status \in {"idle", "running", "halted"}
          /\ cpu.status = "halted" => cpu.regs["eax"] = 10

\* the run of the program with int a=0 has ended with 7
MultipleOperationsHalted ==
    /\ source = Text(MultipleOperationsText)
    /\ cpu.status = "halted"
    /\ cpu.regs["eax"] = 7

(***************************************************************************)
(* int a = a0; int b = 0; a && (b = 1); return b;  and the same with ||.   *)
(***************************************************************************)
StoreAfter(op, a0) ==
    Main(<<DeclInit("a", Lit(a0)), DeclInit("b", Lit(0)),
           Expr(Bin(op, Var("a"), Assign("", Var("b"), Lit(1)))),
           Return(Var("b"))>>)

StoreAfterPrograms == {StoreAfter(op, a0) : op \in {"&&", "||"}, a0 \in {0, 1, 2, INT_MAX}}

InitStoreAfter ==
    \/ BaseInit
    \/ \E t \in StoreAfterPrograms : InitOn(t, Render(t), "test", 2, TRUE)

SpecStoreAfter == InitStoreAfter /\ [][Next]_vars

\* the pseudo-register of b, once main is lowered
RegisterOfB == body.variableToPseudoregister[ResolvedName(Variable("main", "b", 1))]

\* the lines of the emitted text that StoreValue(b, 1) was written as
StoreLines ==
    {i \in 1..Len(asm) :
        <<asm[i]>> = StoreValueMakeAssembly(StoreValueInstruction(RegisterOfB,
                                                                  NumberOperand(1)))}

\* the run is about to execute StoreValue(b, 1)
ExecutesStore == phase = "loaded" /\ cpu.status = "running" /\ cpu.ip \in StoreLines

\* C19, as stated: for a && (b = 1) with a non-zero, and for a || (b = 1) with
\* a zero, no StoreValue(b, 1) is executed
NoStoreAsStated ==
    \A a0 \in {0, 1, 2, INT_MAX} :
        ((source = StoreAfter("&&", a0) /\ a0 # 0) \/ (source = StoreAfter("||", a0) /\ a0 = 0))
            => ~ExecutesStore

\* C19, amended: for a && (b = 1) with a zero, and for a || (b = 1) with a
\* non-zero, no StoreValue(b, 1) is executed and b keeps its value; with a
\* non-zero (respectively zero) the store is in the text once and the run
\* ends with b = 1
NoStoreWhenShortCircuited ==
    \A a0 \in {0, 1, 2, INT_MAX} :
        /\ ((source = StoreAfter("&&", a0) /\ a0 = 0) \/ (source = StoreAfter("||", a0) /\ a0 # 0))
              => /\ phase \notin {"threw", "crashed"}
                 /\ cpu.status \in {"idle", "running", "halted"}
                 /\ ~ExecutesStore
                 /\ phase = "loaded" => Cardinality(StoreLines) = 1
                 /\ cpu.status = "halted" => cpu.mem[RegisterOfB] = 0 /\ cpu.regs["eax"] = 0
        /\ ((source = StoreAfter("&&", a0) /\ a0 # 0) \/ (source = StoreAfter("||", a0) /\ a0 = 0))
              => /\ phase \notin {"threw", "crashed"}
                 /\ cpu.status \in {"idle", "running", "halted"}
                 /\ phase = "loaded" => Cardinality(StoreLines) = 1
                 /\ cpu.status = "halted" => cpu.mem[RegisterOfB] = 1 /\ cpu.regs["eax"] = 1

\* 0 && (b = 1) has run past the store to its return, b still 0
StoreJumpedOver ==
    /\ source = StoreAfter("&&", 0)
    /\ cpu.status = "halted"
    /\ cpu.ip > CHOOSE i \in StoreLines : TRUE
    /\ cpu.mem[RegisterOfB] = 0

(***************************************************************************)
(* int i = i0; do { i++; } while (i < 10); return i;                       *)
(***************************************************************************)
DoWhileProgram(i0) ==
    Main(<<DeclInit("i", Lit(i0)),
           DoWhile(Block(<<Expr(Post("++", Var("i")))>>), Bin("<", Var("i"), Lit(10))),
           Return(Var("i"))>>)

DoWhileStarts == {8, 9, 10, 12}

InitDoWhile ==
    \/ BaseInit
    \/ \E i0 \in DoWhileStarts : InitOn(DoWhileProgram(i0), Render(DoWhileProgram(i0)),
                                        "test", 2, TRUE)

SpecDoWhile == InitDoWhile /\ [][Next]_vars

\* C20: the body of do S while (E); runs once before E is first evaluated:
\* int i = i0; do { i++; } while (i < 10); return i; compiles and returns
\* i0 + 1 when that is 10 or more (11 for i0 = 10), and 10 otherwise
DoWhileBodyRunsFirst ==
    \A i0 \in DoWhileStarts :
        source = DoWhileProgram(i0) =>
            /\ phase \notin {"threw", "crashed"}
            /\ cpu.status \in {"idle", "running", "halted"}
            /\ cpu.status = "halted" =>
                  cpu.regs["eax"] = IF i0 + 1 < 10 THEN 10 ELSE i0 + 1

(***************************************************************************)
(* int main() { return !E; } and int main() { int x = E; return !x; } for  *)
(* operands E with and without bits above the low byte.                    *)
(***************************************************************************)
LogNotOperands ==
    {Lit(n) : n \in {0, 1, 2, 255, 256, 257, 65536, INT_MAX}}
    \cup {Un("-", Lit(n)) : n \in {1, 256, INT_MAX}}

LogNotDirect(e) == Main(<<Return(Un("!", e))>>)

LogNotOfVariable(e) == Main(<<DeclInit("x", e), Return(Un("!", Var("x")))>>)

InitLogNot ==
    \/ BaseInit
    \/ \E e \in LogNotOperands :
          \E t \in {LogNotDirect(e), LogNotOfVariable(e)} :
              InitOn(t, Render(t), "test", 2, TRUE)

SpecLogNot == InitLogNot /\ [][Next]_vars

\* the instructions of the body that are UnaryOp(d, LOGICAL_NOT, x)
LogNotInstructions ==
    {i \in 1..Len(body.instructions) :
        body.instructions[i].i = "UnaryOp" /\ body.instructions[i].op = "LOGICAL_NOT"}

\* the run has just executed the sete of the lines emitted for the UnaryOp
AfterLogNot ==
    /\ phase = "loaded"
    /\ cpu.status = "running"
    /\ cpu.ip \in 2..Len(asm)
    /\ asm[cpu.ip - 1].op = "sete"

\* C21: after the lines emitted for UnaryOp(d, LOGICAL_NOT, x), which are
\* movl x, %r10d; movl %r10d, d; cmpl $0, d; sete d, the 32-bit slot d holds 1
\* when x is zero and 0 otherwise, for every 32-bit x
LogNotSlotValid ==
    \A e \in LogNotOperands :
        source \in {LogNotDirect(e), LogNotOfVariable(e)} =>
            /\ phase \notin {"threw", "crashed"}
            /\ phase \in {"lowered", "emitted", "loaded"} =>
                  \E i \in LogNotInstructions :
                      LET ins == body.instructions[i]
                      IN  makeAssembly(ins, body) =
                             <<Line("movl", operandToAsm(ins.arg), Reg("r10d")),
                               Line("movl", Reg("r10d"), Mem(4 * ins.dest)),
                               Line("cmpl", Imm(0), Mem(4 * ins.dest)),
                               Line("sete", Mem(4 * ins.dest), NoOperand)>>
            /\ AfterLogNot =>
                  ReadOperand(cpu, asm[cpu.ip - 1].a) = Truth(HostEval(e).v = 0)

(***************************************************************************)
(* Token streams that do not match the grammar: int main() { int a = 0;    *)
(* E; return a; } for an expression E, damaged by a missing semicolon, a   *)
(* missing closing brace, a parenthesis that is never closed or one that   *)
(* was never opened.  Some of the expressions break the lvalue rule too.   *)
(***************************************************************************)
DamagedExpressions ==
    { <<Ident("a"), Sym("="), Num(2)>>,
      <<Ident("a"), Sym("+"), Num(1)>>,
      <<Sym("++"), Ident("a")>>,
      <<Num(1), Sym("="), Num(2)>>,
      <<Num(1), Sym("+"), Sym("="), Num(2)>>,
      <<Sym("-"), Ident("a"), Sym("="), Num(1)>>,
      <<Sym("++"), Num(1)>>,
      <<Num(1), Sym("++")>>,
      <<Sym("("), Ident("a"), Sym("+"), Num(1), Sym(")"), Sym("--")>> }

DeclareA == <<Kw("int"), Ident("a"), Sym("="), Num(0), Sym(";")>>
ReturnA == <<Kw("return"), Ident("a"), Sym(";")>>

Damaged(e, damage) ==
    CASE damage = "no semicolon" -> MainTokens(DeclareA \o ReturnA \o e)
      [] damage = "no closing brace" ->
            SubSeq(MainTokens(DeclareA \o e \o <<Sym(";")>> \o ReturnA), 1,
                   Len(DeclareA) + Len(e) + Len(ReturnA) + 6)
      [] damage = "never closed" ->
            MainTokens(DeclareA \o <<Sym("(")>> \o e \o <<Sym(";")>> \o ReturnA)
      [] damage = "never opened" ->
            MainTokens(DeclareA \o e \o <<Sym(")"), Sym(";")>> \o ReturnA)
      [] damage = "never opened, before" ->
            MainTokens(DeclareA \o <<Sym(")")>> \o e \o <<Sym(";")>> \o ReturnA)

Damages == {"no semicolon", "no closing brace", "never closed", "never opened",
            "never opened, before"}

DamagedTokens == {Damaged(e, damage) : e \in DamagedExpressions, damage \in Damages}

\* how many of the tokens are t
RECURSIVE CountOf(_, _, _)
CountOf(toks, t, n) ==
    IF n = 0 THEN 0 ELSE CountOf(toks, t, n - 1) + (IF toks[n] = t THEN 1 ELSE 0)

\* a token stream that cannot match the grammar: every function ends with a
\* closing brace, every statement and declaration with a semicolon or a closing
\* brace, and parentheses and braces come in pairs
NotInGrammar(toks) ==
    \/ toks = <<>>
    \/ toks[Len(toks)] # Sym("}")
    \/ Len(toks) >= 2 /\ toks[Len(toks) - 1] \notin {Sym(";"), Sym("}"), Sym("{")}
    \/ CountOf(toks, Sym("("), Len(toks)) # CountOf(toks, Sym(")"), Len(toks))
    \/ CountOf(toks, Sym("{"), Len(toks)) # CountOf(toks, Sym("}"), Len(toks))

InitDamaged ==
    \/ BaseInit
    \/ \E toks \in DamagedTokens, m \in {"test", "cli"} : InitOn(NoTree, toks, m, 2, TRUE)

SpecDamaged == InitDamaged /\ [][Next]_vars

\* C22: a token stream that does not match the grammar fails to compile with
\* SyntaxError and never with SemanticError: the parser returns no tree for
\* it and the only exception the pipeline ends with is syntax_error
SemanticErrorOnlyWhenWellFormed ==
    (tokens # <<>> /\ NotInGrammar(tokens)) =>
        /\ phase \notin {"parsed", "resolved", "lowered", "emitted", "loaded", "crashed"}
        /\ err # "semantic_error"
        /\ phase \in {"threw", "exited"} => err = "syntax_error"

(***************************************************************************)
(* int a = a0; return L + R; and int a = a0; L + R; return a; where L and  *)
(* R are each ++a, --a, a++, a-- or a, and the same for one operand alone. *)
(***************************************************************************)
StepStarts == {0, 1, 5, INT_MAX}

StepOperands ==
    {Var("a")} \cup {Pre(o, Var("a")) : o \in {"++", "--"}}
    \cup {Post(o, Var("a")) : o \in {"++", "--"}}

StepExpressions == StepOperands \cup {Bin("+", l, r) : l \in StepOperands, r \in StepOperands}

StepReturned(a0, e) == Main(<<DeclInit("a", Lit(a0)), Return(e)>>)

StepThenA(a0, e) == Main(<<DeclInit("a", Lit(a0)), Expr(e), Return(Var("a"))>>)

InitStep ==
    \/ BaseInit
    \/ \E a0 \in StepStarts, e \in StepExpressions :
          \E t \in {StepReturned(a0, e), StepThenA(a0, e)} :
              InitOn(t, Render(t), "test", 2, TRUE)

SpecStep == InitStep /\ [][Next]_vars

\* the value of a after operand x, from the value a before it
Stepped(x, a) ==
    CASE x.t = "var" -> a
      [] x.op = "++" -> Add32(a, 1)
      [] OTHER -> Add32(a, -1)

\* what operand x contributes to the sum: the value a had before x when x is
\* a postfix, and otherwise the register of a, read when the sum is computed
Contributed(x, before, atSum) == IF x.t = "post" THEN before ELSE atSum

\* the value of a after expression e and the value of e, from a = a0
StepOutcome(e, a0) ==
    IF e.t = "bin"
    THEN LET a1 == Stepped(e.kids[1], a0)
             a2 == Stepped(e.kids[2], a1)
         IN  [a |-> a2,
              v |-> Add32(Contributed(e.kids[1], a0, a2), Contributed(e.kids[2], a1, a2))]
    ELSE [a |-> Stepped(e, a0), v |-> Contributed(e, a0, Stepped(e, a0))]

\* the instructions int a = a0; return e; is lowered to when e is one operand
StepInstructions(e, a0) ==
    <<FunctionInstruction("main"), AllocateStackInstruction,
      StoreValueInstruction(1, NumberOperand(a0))>>
    \o (CASE e.t = "var" -> <<ReturnInstruction(RegisterOperand(1))>>
          [] e.t = "pre" ->
                <<BinaryOpInstruction(1, IncDecOperator(e.op), RegisterOperand(1),
                                      NumberOperand(1)),
                  ReturnInstruction(RegisterOperand(1))>>
          [] e.t = "post" ->
                <<StoreValueInstruction(2, RegisterOperand(1)),
                  BinaryOpInstruction(3, IncDecOperator(e.op), RegisterOperand(1),
                                      NumberOperand(1)),
                  StoreValueInstruction(1, RegisterOperand(3)),
                  ReturnInstruction(RegisterOperand(2))>>)

\* C23: prefix ++x and --x change x by one and yield x's own pseudo-register,
\* postfix x++ and x-- change x by one and yield a temporary with the value x
\* had before, which later updates of x leave alone; with a = 5, ++a + a++ is
\* 13, and with a = 1, a++ + a++ is 3
PrefixYieldsRegisterPostfixSnapshot ==
    \A a0 \in StepStarts, e \in StepExpressions :
        /\ source \in {StepReturned(a0, e), StepThenA(a0, e)} =>
              /\ phase \notin {"threw", "crashed"}
              /\ cpu.status \in {"idle", "running", "halted"}
        /\ (source = StepReturned(a0, e) /\ e \in StepOperands
            /\ phase \in {"lowered", "emitted", "loaded"}) =>
              body.instructions = StepInstructions(e, a0)
        /\ (source = StepReturned(a0, e) /\ cpu.status = "halted") =>
              cpu.regs["eax"] = StepOutcome(e, a0).v
        /\ (source = StepThenA(a0, e) /\ cpu.status = "halted") =>
              cpu.regs["eax"] = StepOutcome(e, a0).a
        /\ (source = StepReturned(5, Bin("+", Pre("++", Var("a")), Post("++", Var("a"))))
            /\ cpu.status = "halted") => cpu.regs["eax"] = 13
        /\ (source = StepReturned(1, Bin("+", Post("++", Var("a")), Post("++", Var("a"))))
            /\ cpu.status = "halted") => cpu.regs["eax"] = 3

\* int a = 5; return ++a + a++; has returned 13
MixedPrefixAndPostfix ==
    /\ source = StepReturned(5, Bin("+", Pre("++", Var("a")), Post("++", Var("a"))))
    /\ cpu.status = "halted"
    /\ cpu.regs["eax"] = 13

(***************************************************************************)
(* int a = 1; int b = X; return Y; for expressions X over a and Y over a   *)
(* and b of every kind whose lowering takes a temporary.                   *)
(***************************************************************************)
TemporaryExpressions(x, y) ==
    { Un("-", x), Un("!", y), Bin("+", x, Lit(1)), Bin("<", x, y),
      Bin("&&", x, y), Bin("||", y, Lit(0)), Tern(x, Lit(1), y), Post("++", x),
      Bin("*", Bin("+", x, Lit(1)), Un("~", y)),
      Tern(Bin("==", x, y), Un("-", x), Bin("-", y, x)) }

TemporaryProgram(x, y) ==
    Main(<<DeclInit("a", Lit(1)), DeclInit("b", x), Return(y)>>)

TemporaryPrograms ==
    {TemporaryProgram(x, y) :
        x \in {Lit(2)} \cup TemporaryExpressions(Var("a"), Var("a")),
        y \in TemporaryExpressions(Var("a"), Var("b"))}

InitTemporary ==
    \/ BaseInit
    \/ \E t \in TemporaryPrograms : InitOn(t, Render(t), "test", 2, TRUE)

SpecTemporary == InitTemporary /\ [][Next]_vars

\* the pseudo-registers of the declared variables
VariableRegisters ==
    {body.variableToPseudoregister[id] : id \in DOMAIN body.variableToPseudoregister}

\* the instructions that write a sub-expression result: every UnaryOp and
\* BinaryOp, and every StoreValue into a register that is no variable's (the
\* result of &&, || and ?:, and the snapshot of a postfix)
WritesTemporary(i) ==
    \/ body.instructions[i].i \in {"UnaryOp", "BinaryOp"}
    \/ /\ body.instructions[i].i = "StoreValue"
       /\ body.instructions[i].dest \notin VariableRegisters

\* two instructions that write the same temporary: the two stores of one
\* &&, || or ?:
SameTemporary(i, j) ==
    body.instructions[i].i = "StoreValue" /\ body.instructions[j].i = "StoreValue"

\* C24: every sub-expression result is written to a fresh pseudo-register: its
\* slot is the slot of no declared variable and of no temporary allocated
\* before it in the function
TemporariesAreFresh ==
    (source \in TemporaryPrograms /\ phase \in {"lowered", "emitted", "loaded"}) =>
        \A i \in 1..Len(body.instructions) :
            WritesTemporary(i) =>
                /\ body.instructions[i].dest \notin VariableRegisters
                /\ \A j \in 1..(i - 1) :
                      (WritesTemporary(j) /\ ~SameTemporary(i, j)) =>
                          body.instructions[j].dest # body.instructions[i].dest

(***************************************************************************)
(* Programs whose lowering takes pseudo-registers of every kind: the       *)
(* programs with temporaries, with ++ and --, with ifs, loops that end,    *)
(* blocks and for statements that declare and shadow.                      *)
(***************************************************************************)
SlotPrograms ==
    TemporaryPrograms \cup DanglingPrograms \cup FallOffPrograms
    \cup {StepReturned(1, e) : e \in StepExpressions}
    \cup {ScopeProgram(DeclInit("a", Lit(1)), y, z) :
              y \in ScopeStatements, z \in ScopeStatements}
    \cup {DoWhileProgram(i0) : i0 \in DoWhileStarts}

InitSlot ==
    \/ BaseInit
    \/ \E t \in SlotPrograms : InitOn(t, Render(t), "test", 2, TRUE)

SpecSlot == InitSlot /\ [][Next]_vars

\* the operands of the emitted lines that address a stack slot
SlotOperands ==
    {asm[i].a : i \in {j \in 1..Len(asm) : asm[j].a.k = "mem"}}
    \cup {asm[i].b : i \in {j \in 1..Len(asm) : asm[j].b.k = "mem"}}

\* the lines of the prologue that reserve the stack space
ReserveLines == {i \in 1..Len(asm) : asm[i].op = "subq"}

\* C25: every stack slot -4*k(%rbp) of the emitted instructions has
\* 1 <= k <= N, where N is the final value of the variable counter, which the
\* prologue reserves with subq $(4*N), %rsp; no instruction that is executed
\* addresses memory outside the reserved region
SlotsWithinReservedRegion ==
    (mode = "test" /\ source.t = "main" /\ phase \in {"emitted", "loaded"}) =>
        /\ Cardinality(ReserveLines) = 1
        /\ \A i \in ReserveLines :
              /\ asm[i].a = Imm(4 * body.variableCount)
              /\ asm[i].b = Reg("rsp")
        /\ \A o \in SlotOperands :
              /\ o.s = "rbp"
              /\ o.v % 4 = 0
              /\ 1 <= o.v \div 4
              /\ o.v \div 4 <= body.variableCount
        /\ cpu.status # "bad_access"

\* a run has ended whose text addresses the fifth slot of six reserved ones
HighSlotAddressed ==
    /\ source \in SlotPrograms
    /\ cpu.status = "halted"
    /\ body.variableCount = 6
    /\ Mem(20) \in SlotOperands

(***************************************************************************)
(* Programs with several constructs that take labels: ifs in ifs, loops in *)
(* loops with break and continue, and &&, || and ?: in the conditions and  *)
(* bodies of loops and ifs.                                                *)
(***************************************************************************)
\* a < 3 && (a ? 1 : 1), and the like
LabelledCondition(name) ==
    Bin("&&", Bin("<", Var(name), Lit(3)), Tern(Var(name), Lit(1), Bin("||", Lit(0), Lit(1))))

LabelledLoops(first, second) ==
    Main(<<DeclInit("r", Lit(0))>>
         \o CountingLoop(first, "i",
                <<IfElse(LabelledCondition("i"), AddTo("r", Lit(1)), Continue)>>)
         \o <<If(Bin("||", Var("r"), Var("r")), AddTo("r", Tern(Var("r"), Lit(10), Lit(20))))>>
         \o CountingLoop(second, "j",
                <<If(Bin("&&", Var("j"), Var("r")), Break)>>)
         \o <<Return(Bin("+", Var("r"), Tern(LabelledCondition("r"), Lit(100), Lit(200))))>>)

LabelPrograms ==
    DanglingPrograms \cup FallOffPrograms
    \cup {LabelledLoops(first, second) : first \in LoopKinds, second \in LoopKinds}
    \cup {LoopProgram(outer, inner, "nested", innerJump, Continue) :
              outer \in LoopKinds, inner \in LoopKinds, innerJump \in Jumps}
    \cup {TemporaryProgram(Lit(2), y) : y \in TemporaryExpressions(Var("a"), Var("b"))}

InitLabel ==
    \/ BaseInit
    \/ \E t \in LabelPrograms : InitOn(t, Render(t), "test", 2, TRUE)

SpecLabel == InitLabel /\ [][Next]_vars

\* the Label instructions of the body that carry the string
LabelInstructions(string) ==
    {i \in 1..Len(body.instructions) :
        body.instructions[i].i = "Label" /\ body.instructions[i].label = string}

\* C26: labels are unique within a compilation: no two Label instructions of
\* the function carry the same string, and every Jump, JumpIfZero and
\* JumpIfNotZero targets a label that exactly one Label instruction defines
LabelsAreUnique ==
    (source \in LabelPrograms /\ phase \in {"lowered", "emitted", "loaded"}) =>
        /\ \A i \in 1..Len(body.instructions) :
              /\ body.instructions[i].i = "Label" =>
                    LabelInstructions(body.instructions[i].label) = {i}
              /\ body.instructions[i].i \in {"Jump", "JumpIfZero", "JumpIfNotZero"} =>
                    Cardinality(LabelInstructions(body.instructions[i].label)) = 1
        /\ cpu.status # "assembler_error"

\* the run of a program with a do loop and a for loop, ifs, &&, || and ?:
\* has ended; its body has twenty or more labels
ManyLabelsRun ==
    /\ source = LabelledLoops("do", "for")
    /\ cpu.status = "halted"
    /\ Cardinality({i \in 1..Len(body.instructions) : body.instructions[i].i = "Label"}) >= 20

(***************************************************************************)
(* int b = 0; int a = 1; Y Z return a * 10 + b; where Y and Z declare a    *)
(* again in blocks, blocks of blocks and for statements.                   *)
(***************************************************************************)
SiblingPrograms ==
    {ScopeProgram(DeclInit("a", Lit(1)), y, z) : y \in ScopeStatements, z \in ScopeStatements}

InitSibling ==
    \/ BaseInit
    \/ \E t \in SiblingPrograms : InitOn(t, Render(t), "test", 2, TRUE)

SpecSibling == InitSibling /\ [][Next]_vars

RECURSIVE DeclaredIdentifiers(_)
RECURSIVE DeclaredInItems(_, _)

\* the identifiers of the DeclarationNodes of block_items[i..], in source order
DeclaredInItems(items, i) ==
    IF i > Len(items) THEN <<>>
    ELSE DeclaredIdentifiers(items[i]) \o DeclaredInItems(items, i + 1)

\* the identifiers of the DeclarationNodes under a node, in source order
DeclaredIdentifiers(node) ==
    CASE node.t = "Declaration" -> <<node.identifier>>
      [] node.t = "Block" -> DeclaredInItems(node.block_items, 1)
      [] node.t = "Condition" ->
            DeclaredIdentifiers(node.ifTrue) \o DeclaredIdentifiers(node.ifFalse)
      [] node.t = "While" -> DeclaredIdentifiers(node.body)
      [] node.t = "For" -> DeclaredIdentifiers(node.init) \o DeclaredIdentifiers(node.body)
      [] node.t = "FunctionDefinition" -> DeclaredIdentifiers(node.body)
      [] OTHER -> <<>>

\* C27: after name resolution no two declarations of a function carry the same
\* resolved name, declarations of one source name in sibling blocks included,
\* so the lowering pass's map from resolved name to pseudo-register has one
\* key for every declaration
ResolvedNamesAreUnique ==
    LET names == DeclaredIdentifiers(ast.function_declaration)
    IN  (source \in SiblingPrograms /\ phase \in {"resolved", "lowered", "emitted", "loaded"}) =>
            /\ \A i, j \in 1..Len(names) : i # j => names[i] # names[j]
            /\ phase # "resolved" =>
                  Cardinality(DOMAIN body.variableToPseudoregister) = Len(names)

(***************************************************************************)
(* Lexical scoping of a source tree, without a stack: a declaration binds  *)
(* its name, at the depth of its scope, for the rest of the scope, and the *)
(* statements after a block or for statement see the bindings that were in *)
(* force before it.                                                        *)
(***************************************************************************)
RECURSIVE Scoped(_, _, _)
RECURSIVE ScopedAll(_, _, _, _)

\* a result of Scoped: the resolved names of the declarations and uses, in
\* source order, and the bindings in force afterwards
Names(names, env) == [names |-> names, env |-> env]

\* the statements or operands kids[i..], one after the other
ScopedAll(kids, i, env, depth) ==
    IF i > Len(kids) THEN Names(<<>>, env)
    ELSE LET first == Scoped(kids[i], env, depth)
             rest == ScopedAll(kids, i + 1, first.env, depth)
         IN  Names(first.names \o rest.names, rest.env)

Scoped(e, env, depth) ==
    CASE e.t = "var" -> Names(<<ResolvedName(Variable("main", e.op, env[e.op]))>>, env)
      [] e.t = "decl" ->
            LET bound == [n \in DOMAIN env \cup {e.op} |-> IF n = e.op THEN depth ELSE env[n]]
            IN  Names(<<ResolvedName(Variable("main", e.op, depth))>>
                      \o ScopedAll(e.kids, 1, bound, depth).names, bound)
      [] e.t \in {"block", "main"} ->
            Names(ScopedAll(e.kids, 1, env, depth + 1).names, env)
      [] e.t = "for" ->
            Names(ScopedAll(e.kids, 1, env,
                            IF e.kids[1].t = "empty" THEN depth ELSE depth + 1).names, env)
      [] OTHER -> ScopedAll(e.kids, 1, env, depth)

RECURSIVE Identifiers(_)
RECURSIVE IdentifiersOfItems(_, _)

IdentifiersOfItems(items, i) ==
    IF i > Len(items) THEN <<>>
    ELSE Identifiers(items[i]) \o IdentifiersOfItems(items, i + 1)

\* the identifiers of the DeclarationNodes and VariableNodes under a node, in
\* source order
Identifiers(node) ==
    CASE node.t = "Declaration" -> <<node.identifier>> \o Identifiers(node.expression)
      [] node.t = "Variable" -> <<node.identifier>>
      [] node.t \in {"Assignment", "Binary"} ->
            Identifiers(node.left) \o Identifiers(node.right)
      [] node.t \in {"Unary", "Return"} -> Identifiers(node.expression)
      [] node.t \in {"Prefix", "Postfix"} -> Identifiers(node.variable)
      [] node.t = "Block" -> IdentifiersOfItems(node.block_items, 1)
      [] node.t = "Condition" ->
            Identifiers(node.condition) \o Identifiers(node.ifTrue)
            \o Identifiers(node.ifFalse)
      [] node.t = "While" -> Identifiers(node.condition) \o Identifiers(node.body)
      [] node.t = "For" ->
            Identifiers(node.init) \o Identifiers(node.condition)
            \o Identifiers(node.increment) \o Identifiers(node.body)
      [] node.t = "FunctionDefinition" -> Identifiers(node.body)
      [] OTHER -> <<>>

\* C28: the resolver pops a scope (a block, or a for statement with its init)
\* after every statement of the scope has been visited, and the pop removes the
\* bindings of that scope's layer and no binding of an enclosing layer: every
\* declaration and use of an accepted program is resolved to the binding that
\* lexical scoping gives it, in the scope, in its last statement and after it
ScopePoppedAtItsEnd ==
    (source \in SiblingPrograms /\ phase \in {"resolved", "lowered", "emitted", "loaded"}) =>
        Identifiers(ast.function_declaration) = Scoped(source, <<>>, 0).names

\* a program whose blocks shadow a at two depths is resolved: the last
\* statement of the outer block uses the a of that block, the return the a of
\* the function
NestedScopesResolved ==
    /\ source = ScopeProgram(DeclInit("a", Lit(1)),
                             Block(<<DeclInit("a", Lit(7)),
                                     Block(<<DeclInit("a", Lit(9)), AddTo("a", Lit(1))>>),
                                     AddTo("b", Var("a"))>>),
                             AddTo("a", Lit(2)))
    /\ phase = "resolved"
    /\ Identifiers(ast.function_declaration) =
          <<"main::b::1", "main::a::1", "main::a::2", "main::a::3", "main::a::3",
            "main::a::3", "main::b::1", "main::b::1", "main::a::2", "main::a::1",
            "main::a::1", "main::a::1", "main::b::1">>

(***************************************************************************)
(* Sources of one function: int, a name, ( ) { a body } and what follows   *)
(* the closing brace.                                                      *)
(***************************************************************************)
\* what stands where the function's name is expected
FunctionNames == {<<Ident("main")>>, <<Ident("foo")>>, <<Ident("Main")>>,
                  <<Kw("return")>>, <<>>}

FunctionBodies ==
    { <<Kw("return"), Num(0), Sym(";")>>,
      <<>>,
      <<Kw("int"), Ident("a"), Sym("="), Num(1), Sym(";"),
        Kw("return"), Ident("a"), Sym(";")>> }

FunctionSource(name, statements, trailing) ==
    <<Kw("int")>> \o name \o <<Sym("("), Sym(")"), Sym("{")>> \o statements
    \o <<Sym("}")>> \o trailing

\* the tokens after the closing brace; the last ones are a second function
TrailingTokens ==
    { <<>>, <<Sym(";")>>, <<Sym("}")>>, <<Kw("int")>>, <<Num(0)>>,
      FunctionSource(<<Ident("main")>>, <<Kw("return"), Num(0), Sym(";")>>, <<>>) }

FunctionSources ==
    {FunctionSource(name, statements, trailing) :
        name \in FunctionNames, statements \in FunctionBodies, trailing \in TrailingTokens}

InitFunction ==
    \/ BaseInit
    \/ \E toks \in FunctionSources : InitOn(NoTree, toks, "cli", 2, TRUE)

SpecFunction == InitFunction /\ [][Next]_vars

\* the parser has returned a Program for the source
ParseSucceeded == ast # NullNode

\* the parser has been run on the source
ParseDone == phase \notin {"start", "lexed"}

\* the source is one function with a name and nothing after its closing brace
OneNamedFunction(toks) ==
    \E name \in {n \in FunctionNames : n # <<>> /\ n[1].k = "Identifier"},
       statements \in FunctionBodies : toks = FunctionSource(name, statements, <<>>)

\* C29 as stated: every Program of a successful parse owns one FunctionDef and
\* it is named main; a source whose only function has another name, or that
\* has tokens after the closing brace of the function, is not accepted
OnlyMainAccepted ==
    (tokens \in FunctionSources /\ ParseSucceeded) =>
        /\ ast.t = "Program"
        /\ ast.function_declaration.t = "FunctionDefinition"
        /\ ast.function_declaration.identifier = "main"
        /\ \E statements \in FunctionBodies :
              tokens = FunctionSource(<<Ident("main")>>, statements, <<>>)

\* C29 as amended: every Program of a successful parse owns one FunctionDef,
\* named by the identifier the source gives it, main or not; a source of one
\* named function and nothing after it is accepted, and a source with tokens
\* after the closing brace, or without a name, ends with syntax_error
FunctionNamedAsWritten ==
    tokens \in FunctionSources =>
        /\ ParseSucceeded =>
              /\ ast.t = "Program"
              /\ ast.function_declaration.t = "FunctionDefinition"
              /\ tokens[2].k = "Identifier"
              /\ ast.function_declaration.identifier = tokens[2].s
              /\ OneNamedFunction(tokens)
        /\ (ParseDone /\ OneNamedFunction(tokens)) => (ParseSucceeded /\ err = "none")
        /\ (ParseDone /\ ~OneNamedFunction(tokens)) =>
              (~ParseSucceeded /\ err = "syntax_error" /\ outFile = "empty")

\* the command has compiled int foo() { return 0; } and written its assembly,
\* which defines foo and no main
FunctionFooCompiled ==
    /\ tokens = FunctionSource(<<Ident("foo")>>, <<Kw("return"), Num(0), Sym(";")>>, <<>>)
    /\ phase = "exited" /\ exitCode = 0 /\ err = "none" /\ outFile = "written"
    /\ ast.function_declaration.identifier = "foo"
    /\ body.name = "foo"
    /\ LabelLines(asm, "foo") # {}
    /\ LabelLines(asm, "main") = {}

(***************************************************************************)
(* Sources that fail at each stage of the pipeline, after statements that  *)
(* compile, and sources that compile.                                      *)
(***************************************************************************)
\* nothing; int a = 1; and int a = 1; a = a + 2;
LeadingStatements ==
    { <<>>,
      <<Kw("int"), Ident("a"), Sym("="), Num(1), Sym(";")>>,
      <<Kw("int"), Ident("a"), Sym("="), Num(1), Sym(";"),
        Ident("a"), Sym("="), Ident("a"), Sym("+"), Num(2), Sym(";")>> }

ClosingStatements ==
    { <<Kw("return"), Num(0), Sym(";")>>,
      <<Kw("return"), Ident("a"), Sym(";")>>,
      <<Kw("return"), Num(0)>>,
      <<Kw("return"), Sym(";")>>,
      <<Kw("return"), Num(0), Sym(";"), Sym("}")>>,
      <<Kw("int"), Ident("a"), Sym("="), Num(2), Sym(";"), Kw("return"), Ident("a"), Sym(";")>>,
      <<Kw("break"), Sym(";"), Kw("return"), Num(0), Sym(";")>>,
      <<Num(1), Sym("="), Num(2), Sym(";"), Kw("return"), Num(0), Sym(";")>>,
      <<Ident("b"), Sym("="), Num(2), Sym(";"), Kw("return"), Num(0), Sym(";")>> }

StageSources ==
    {FunctionSource(<<Ident("main")>>, leading \o closing, <<>>) :
        leading \in LeadingStatements, closing \in ClosingStatements}

InitStage ==
    \/ BaseInit
    \/ \E toks \in StageSources, m \in {"test", "cli"} : InitOn(NoTree, toks, m, 2, TRUE)

SpecStage == InitStage /\ [][Next]_vars

\* the text of every line the instructions of the FunctionBody assemble to
CompleteAssembly == [i \in 1..Len(Assemble(body, 1)) |-> LineText(Assemble(body, 1)[i])]

\* the output stream holds no bytes, or it holds the complete assembly of a
\* compilation that has not failed; after a failure it holds no bytes
AllOrNothing ==
    /\ err # "none" =>
          /\ out = <<>> /\ asm = <<>> /\ outFile # "written"
          /\ phase \in {"threw", "exited", "crashed"}
    /\ out # <<>> =>
          /\ err = "none" /\ phase \in {"emitted", "loaded", "exited"}
          /\ out = CompleteAssembly
          /\ out[Len(out)] = "ret"
    /\ phase \in {"start", "lexed", "parsed", "resolved", "lowered"} => out = <<>>

\* once an exception has ended the pipeline no stage runs any more: the tree,
\* the FunctionBody, the assembly and the stream stay as they are, and the
\* only step left is the one that ends the process
NoStageAfterFailure ==
    err # "none" =>
        /\ UNCHANGED <<err, msg, ast, body, asm, out, out1, cpu, outFile>>
        /\ phase' \in {"exited", "crashed"}

\* C30: a compile error ends the compilation at the stage that raises it, with
\* no recovery, and nothing has been written to the output stream: the stream
\* receives the complete assembly of a successful compilation or no bytes
CompileErrorWritesNothing == []AllOrNothing /\ [][NoStageAfterFailure]_vars

\* the resolver has rejected b = 2; after int a = 1; a = a + 2; have been
\* resolved: the command has opened the output file and nothing is in it
FailedAfterStatements ==
    /\ tokens = FunctionSource(<<Ident("main")>>,
                               <<Kw("int"), Ident("a"), Sym("="), Num(1), Sym(";"),
                                 Ident("a"), Sym("="), Ident("a"), Sym("+"), Num(2), Sym(";"),
                                 Ident("b"), Sym("="), Num(2), Sym(";"),
                                 Kw("return"), Num(0), Sym(";")>>, <<>>)
    /\ mode = "cli" /\ phase = "exited"
    /\ err = "semantic_error" /\ ast # NullNode
    /\ out = <<>> /\ outFile = "empty"

=============================================================================
